---- MODULE Spec2Model ----
(***************************************************************************)
(* A model of the pager of core/storage/pager.rs: the page cache and the   *)
(* dirty set, the read path, page allocation, the free-page, flush, commit *)
(* and checkpoint state machines, rollback and WAL frame ingress.          *)
(*                                                                         *)
(* One action stands for one call of a pager method (or one completion of  *)
(* an I/O request).  A method is an operator from the pager state s (a     *)
(* record of all the state variables) to the set of its possible outcomes, *)
(* each a record with the state after the call (st) and the value that the *)
(* call returned (ret); the outcomes differ where the collaborators of the *)
(* pager (WAL, I/O backend, page cache eviction) may answer differently.   *)
(*                                                                         *)
(* A Page object is identified with its page id: flags[id] are the flags   *)
(* of the Page object that was created last for id; it may be in the page  *)
(* cache or only held by callers.                                          *)
(***************************************************************************)
EXTENDS Integers, Sequences, FiniteSets, TLC

(* ---- bounds ---------------------------------------------------------- *)

\* Largest page id: allocate_page is not called once the file has MaxPage pages.
MaxPage == 3

\* Capacity of the page cache (DumbLruPageCache::new(capacity)).
CacheCap == 2

\* The largest capacity change_page_cache_size is called with.
LargeCacheCap == CacheCap + 1

\* Callers pin a page at most MaxPin times.
MaxPin == 1

\* free_page is not called once the header counts MaxFree free pages.
MaxFree == 2

\* The calls of wal.sync() a checkpoint_shutdown is followed through.
MaxAttempts == 2

\* The threads test_shared_cache spawns.
NumThreads == 3

\* The calls of one operation that return IO and are counted.
MaxIos == 2

\* The largest value of the counter _attempts of checkpoint_shutdown, an
\* i32: it stands for i32::MAX.
AttemptsMax == 2

\* The pointer-map arithmetic is applied to the page numbers 1..MaxPageNo
\* and to the TopPages + 1 largest page numbers.
MaxPageNo == 210

TopPages == 210

\* The pagers (connections) that share one db_state and one init lock.
NumPagers == 2
Pagers == 1..NumPagers

\* The page numbers of the model: pages are allocated up to MaxPage, and
\* past it, up to LastPage, by a btree_create that is repeated.
LastPage == MaxPage + 2
Pages == 1..LastPage

(* ---- program constants ----------------------------------------------- *)

PAGE_UPTODATE == "UPTODATE"
PAGE_LOCKED == "LOCKED"
PAGE_DIRTY == "DIRTY"
PAGE_LOADED == "LOADED"

\* The page size of the database, the smallest one allowed (MIN_PAGE_SIZE).
PageSize == 512

PTRMAP_ENTRY_SIZE == 5
FIRST_PTRMAP_PAGE_NO == 2

\* u32::MAX of the model: its u32 is one bit short of the program's, as the
\* integers of TLC end at 2^31 - 1.
U32_MAX == 2147483647

\* The page numbers ptrmap_put is called for.
MaxDataPage == MaxPage + 1

\* The entries that are serialized and deserialized, and those of them
\* ptrmap_put is called with.
EntryTypes == 1..5

Parents == {0, 1, 255, 256, 65535, 65536, 16777215, 16777216, 16909060,
            U32_MAX}

PutTypes == {1, 5}

PutParents == {16909060, U32_MAX}

VARIABLES
    page_cache,         \* ids of the pages held by the page cache
    flags,              \* flags[id]: flags of the Page object of id
    pin_count,          \* pin_count[id]: pin count of the Page object of id
    dirty_pages,        \* Pager::dirty_pages
    header,             \* header fields as the accessors return them now
    wal,                \* what the pager can observe of the WAL
    commit_info,        \* Pager::commit_info
    flush_info,         \* Pager::flush_info
    checkpoint_state,   \* Pager::checkpoint_state
    checkpoint_inflight,\* Pager::checkpoint_inflight
    syncing,            \* Pager::syncing
    free_page_state,    \* Pager::free_page_state
    auto_vacuum_mode,   \* Pager::auto_vacuum_mode
    capacity,           \* capacity of the page cache
    content,            \* what the pager sees in each page but page 1
    batch,              \* history: the WAL calls of the current commit
    created,            \* history: the roots btree_create has returned
    page1,              \* db_state, init_lock and the allocate_page1 FSMs
    flushed,            \* history: the frames of the running flush
    threads,            \* the threads that share the cache, and its lock
    ops,                \* history: the operations that are under way
    last                \* history: the last call and what it returned

vars == <<page_cache, flags, pin_count, dirty_pages, header, wal, commit_info,
          flush_info, checkpoint_state, checkpoint_inflight, syncing,
          free_page_state, auto_vacuum_mode, capacity, content,
          batch, created, page1, flushed, threads, ops, last>>

\* The pager state as one value, the argument of the methods below.
St ==
    [cache |-> page_cache, flags |-> flags, pin |-> pin_count,
     dirty |-> dirty_pages, hdr |-> header, wal |-> wal,
     commit |-> commit_info, flush |-> flush_info,
     ckpt |-> checkpoint_state, ckpt_inflight |-> checkpoint_inflight,
     syncing |-> syncing, free |-> free_page_state,
     avm |-> auto_vacuum_mode, cap |-> capacity, content |-> content,
     batch |-> batch, created |-> created, page1 |-> page1,
     flushed |-> flushed, threads |-> threads, ops |-> ops]

Install(s) ==
    /\ page_cache' = s.cache
    /\ flags' = s.flags
    /\ pin_count' = s.pin
    /\ dirty_pages' = s.dirty
    /\ header' = s.hdr
    /\ wal' = s.wal
    /\ commit_info' = s.commit
    /\ flush_info' = s.flush
    /\ checkpoint_state' = s.ckpt
    /\ checkpoint_inflight' = s.ckpt_inflight
    /\ syncing' = s.syncing
    /\ free_page_state' = s.free
    /\ auto_vacuum_mode' = s.avm
    /\ capacity' = s.cap
    /\ content' = s.content
    /\ batch' = s.batch
    /\ created' = s.created
    /\ page1' = s.page1
    /\ flushed' = s.flushed
    /\ threads' = s.threads
    /\ ops' = s.ops

(* ---- pointer map arithmetic (mod ptrmap) ------------------------------ *)

entries_per_ptrmap_page(page_size) == page_size \div PTRMAP_ENTRY_SIZE

ptrmap_page_cycle_length(page_size) == (page_size \div PTRMAP_ENTRY_SIZE) + 1

\* a + b of two u32 overflows.
add_overflows(a, b) == a > U32_MAX - b

\* a + b of two u32 as a build without overflow checks computes it.
wrapping_add(a, b) ==
    IF add_overflows(a, b) THEN (a - (U32_MAX - b)) - 1 ELSE a + b

get_ptrmap_page_no_for_db_page_mutant(db_page_no_to_query, page_size) ==
    LET group_size == entries_per_ptrmap_page(page_size)
        effective_page_index == db_page_no_to_query - FIRST_PTRMAP_PAGE_NO
        group_idx == effective_page_index \div group_size
    IN  (group_idx * group_size) + FIRST_PTRMAP_PAGE_NO

get_ptrmap_page_no_for_db_page(db_page_no_to_query, page_size) ==
    LET group_size == ptrmap_page_cycle_length(page_size)
        effective_page_index == db_page_no_to_query - FIRST_PTRMAP_PAGE_NO
        group_idx == effective_page_index \div group_size
    IN  (group_idx * group_size) + FIRST_PTRMAP_PAGE_NO

is_ptrmap_page(db_page_no, page_size) ==
    IF db_page_no = 1 THEN FALSE
    ELSE IF db_page_no = FIRST_PTRMAP_PAGE_NO THEN TRUE
    ELSE get_ptrmap_page_no_for_db_page(db_page_no, page_size) = db_page_no

\* get_ptrmap_offset_in_page: the byte offset of the entry of
\* db_page_no_to_query in its pointer-map page, or an InternalError.
\* The two sums are u32 additions: one that overflows panics in a build
\* with overflow checks and wraps in a build without.
get_ptrmap_offset_in_page(db_page_no_to_query, ptrmap_page_no, page_size) ==
    LET n_data_pages_per_group == entries_per_ptrmap_page(page_size)
        first_data_page_mapped == wrapping_add(ptrmap_page_no, 1)
        last_data_page_mapped ==
            wrapping_add(ptrmap_page_no, n_data_pages_per_group)
    IN  (IF \/ add_overflows(ptrmap_page_no, 1)
            \/ add_overflows(ptrmap_page_no, n_data_pages_per_group)
         THEN {[ret |-> "Panic", offset |-> 0]}
         ELSE {}) \cup
        {IF \/ db_page_no_to_query < first_data_page_mapped
            \/ db_page_no_to_query > last_data_page_mapped
            \/ is_ptrmap_page(db_page_no_to_query, page_size)
         THEN [ret |-> "InternalError", offset |-> 0]
         ELSE [ret |-> "Ok",
               offset |-> (db_page_no_to_query - first_data_page_mapped)
                              * PTRMAP_ENTRY_SIZE]}

\* PtrmapType::RootPage as u8
PTRMAP_ROOTPAGE == 1

from_u8_mutant(value) == value \in 0..5

\* PtrmapType::from_u8 is Some(..).
from_u8(value) == value \in 1..5

to_be_bytes_mutant(x) ==
    <<x % 256, (x \div 256) % 256, (x \div 65536) % 256, x \div 16777216>>

\* u32::to_be_bytes
to_be_bytes(x) ==
    <<x \div 16777216, (x \div 65536) % 256, (x \div 256) % 256, x % 256>>

\* u32::from_be_bytes
from_be_bytes(b) == (((((b[1] * 256) + b[2]) * 256) + b[3]) * 256) + b[4]

\* Option<PtrmapEntry>::None
NoEntry == [some |-> FALSE, entry_type |-> 0, parent_page_no |-> 0]

\* PtrmapEntry::serialize: the five bytes written to the buffer.
serialize(entry_type, parent_page_no) ==
    <<entry_type>> \o to_be_bytes(parent_page_no)

\* PtrmapEntry::deserialize
deserialize(buffer) ==
    IF Len(buffer) < PTRMAP_ENTRY_SIZE THEN NoEntry
    ELSE IF from_u8(buffer[1])
    THEN [some |-> TRUE, entry_type |-> buffer[1],
          parent_page_no |-> from_be_bytes(SubSeq(buffer, 2, 5))]
    ELSE NoEntry

\* Five bytes of a page that were never written.
ZeroBytes == <<0, 0, 0, 0, 0>>

serialize_entry_mutant(entries, offset, entry_type, parent_page_no) == entries

\* PtrmapEntry::serialize into the buffer of a pointer-map page at offset:
\* the five bytes there are replaced.  entries holds, as <<offset, bytes>>,
\* the entries of the page that are not zero.
serialize_entry(entries, offset, entry_type, parent_page_no) ==
    {e \in entries : e[1] # offset}
        \cup {<<offset, serialize(entry_type, parent_page_no)>>}

\* PtrmapEntry::deserialize of the five bytes at offset.
deserialize_entry(entries, offset) ==
    deserialize(IF \E e \in entries : e[1] = offset
                THEN (CHOOSE x \in entries : x[1] = offset)[2]
                ELSE ZeroBytes)

(* ---- the page cache (DumbLruPageCache) -------------------------------- *)

\* Page::is_pinned
is_pinned(s, p) == s.pin[p] > 0

\* A page of zeroes: no pointer-map entry (the entries written, as
\* <<offset, bytes>>), and as a freelist trunk no next trunk and no leaf (the
\* leaves as <<offset, page id>>); len is the length of its buffer.
ZeroPage == [ptrmap |-> {}, next_trunk |-> 0, leaf_count |-> 0, leaves |-> {},
             len |-> PageSize]

\* A page that is not in the cache cannot be reached through the pager any
\* more: the model keeps no flags of it.
dropped(fl) == {}

\* The cache stops holding page v.  A page 1 that leaves the cache takes its
\* buffer with it: the accessors will read the header from the WAL or the file.
cache_remove(s, v) ==
    [s EXCEPT !.cache = @ \ {v},
              !.flags[v] = dropped(@),
              !.hdr = IF v = 1 THEN s.wal.hdr ELSE @,
              !.content[v] = s.wal.img[v]]

\* insert(key, page): Ok | Full | KeyExists.  A full cache evicts one page
\* that is neither pinned nor dirty; which one is the cache's choice.
cache_insert(s, id) ==
    IF id \in s.cache THEN {[st |-> s, res |-> "KeyExists"]}
    ELSE IF Cardinality(s.cache) < s.cap
    THEN {[st |-> [s EXCEPT !.cache = @ \cup {id}], res |-> "Ok"]}
    ELSE LET evictable == {v \in s.cache :
                              ~is_pinned(s, v) /\ PAGE_DIRTY \notin s.flags[v]}
         IN  IF evictable = {} THEN {[st |-> s, res |-> "Full"]}
             ELSE {[st |-> [cache_remove(s, v) EXCEPT !.cache = @ \cup {id}],
                    res |-> "Ok"] : v \in evictable}

\* clear(): fails if a page is pinned, else empties the cache.
cache_clear(s) ==
    IF \E p \in s.cache : is_pinned(s, p) THEN [st |-> s, res |-> "Err"]
    ELSE [st |-> [s EXCEPT !.cache = {},
                           !.flags = [p \in Pages |-> IF p \in s.cache
                                                      THEN dropped(s.flags[p])
                                                      ELSE s.flags[p]],
                           !.hdr = s.wal.hdr,
                           !.content = s.wal.img],
          res |-> "Ok"]

\* resize(capacity), called with a capacity the cached pages fit in.
cache_resize(s, new_capacity) == [s EXCEPT !.cap = new_capacity]

\* unset_dirty_all_pages(): clears DIRTY on every page of the cache.
unset_dirty_all_pages(s) ==
    [s EXCEPT !.flags = [p \in Pages |->
                            IF p \in s.cache THEN s.flags[p] \ {PAGE_DIRTY}
                            ELSE s.flags[p]]]

(* ---- reading pages ----------------------------------------------------- *)

\* Completion of a page read (from the WAL or the file): the page is loaded.
finish_read_page(fl) == (fl \ {PAGE_LOCKED}) \cup {PAGE_UPTODATE, PAGE_LOADED}

\* The flags of the new Page object when read_page has issued its read:
\* LOCKED, and UPTODATE already if the read is a WAL frame read.
issued_read(found) ==
    IF found THEN {PAGE_LOCKED, PAGE_UPTODATE} ELSE {PAGE_LOCKED}

reads_of_miss_mutant(found) == [wal |-> 0, db |-> 1]

\* The reads that read_page issues on a cache miss: read_frame if find_frame
\* returned a frame, begin_read_page otherwise.
reads_of_miss(found) ==
    IF found THEN [wal |-> 1, db |-> 0] ELSE [wal |-> 0, db |-> 1]

refused_read_mutant(s, page_idx) == [s EXCEPT !.cache = @ \cup {page_idx}]

\* The pager after read_page got Err(CacheError::Full) from the insert: the
\* new Page object is dropped with the error, nothing else was touched.
refused_read(s, page_idx) == s

\* read_page(page_idx).  answered: find_frame returned without error; found:
\* it returned a frame (the WAL's answer); imm: the backend completed the
\* read before read_page returned.  wal_reads and db_reads count the calls
\* of read_frame and begin_read_page that the call made.
read_page(s, page_idx) ==
    IF page_idx \in s.cache
    THEN {[st |-> s, ret |-> "Ok", hit |-> TRUE, answered |-> FALSE,
           found |-> FALSE, wal_reads |-> 0, db_reads |-> 0]}
    ELSE {[st |-> s, ret |-> "Err", hit |-> FALSE, answered |-> FALSE,
           found |-> FALSE, wal_reads |-> 0, db_reads |-> 0]}
         \cup
         { [st |-> s, ret |-> "Err", hit |-> FALSE, answered |-> TRUE,
            found |-> found, wal_reads |-> reads_of_miss(found).wal,
            db_reads |-> reads_of_miss(found).db] : found \in BOOLEAN }
         \cup
         { [st |-> IF o.res = "Ok"
                   THEN [o.st EXCEPT !.flags[page_idx] =
                            IF imm THEN finish_read_page(issued_read(found))
                            ELSE issued_read(found)]
                   ELSE refused_read(s, page_idx),
            ret |-> IF o.res = "Ok" THEN "Ok" ELSE "CacheFull",
            hit |-> FALSE, answered |-> TRUE, found |-> found,
            wal_reads |-> reads_of_miss(found).wal,
            db_reads |-> reads_of_miss(found).db]
           : o \in cache_insert(s, page_idx), imm \in BOOLEAN,
             found \in BOOLEAN }

\* add_dirty(page)
add_dirty(s, id) ==
    [s EXCEPT !.dirty = @ \cup {id}, !.flags[id] = @ \cup {PAGE_DIRTY}]

\* page.is_locked() || !page.is_loaded() of the page of id.
not_loaded_yet(s, id) ==
    PAGE_LOCKED \in s.flags[id] \/ PAGE_LOADED \notin s.flags[id]

(* ---- header accessors (header_accessor) ------------------------------- *)

\* The header page: page 1 through read_page, the caller blocked on the I/O
\* pump until the page is loaded.
get_header_page(s) ==
    { [st |-> IF o.ret = "Ok"
              THEN [o.st EXCEPT !.flags[1] =
                       IF PAGE_LOCKED \in @ THEN finish_read_page(@) ELSE @]
              ELSE s,
       ret |-> o.ret] : o \in read_page(s, 1) }

\* A header setter: the header page is marked dirty and the field written.
set_header_field(s, field, value) ==
    { [st |-> IF o.ret = "Ok"
              THEN [add_dirty(o.st, 1) EXCEPT !.hdr[field] = value]
              ELSE s,
       ret |-> o.ret] : o \in get_header_page(s) }

(* ---- allocation -------------------------------------------------------- *)

\* allocate_page(page_id, buffer_pool, offset): a new loaded Page object.
new_page(s, id) ==
    [s EXCEPT !.flags[id] = {PAGE_LOADED}, !.content[id] = ZeroPage]

insert_allocated_mutant(s, id) ==
    { [st |-> o.st, ret |-> IF o.res = "Ok" THEN "Ok" ELSE "CacheFull"]
      : o \in cache_insert(new_page(s, id), id) }

\* The insertion of a freshly allocated page, as the two places of
\* Pager::allocate_page do it: add_dirty first, then the cache insert.
insert_allocated(s, id) ==
    { [st |-> IF o.res = "Full"
              THEN [o.st EXCEPT !.flags[id] = dropped(@),
                                !.content[id] = s.wal.img[id]]
              ELSE o.st,
       ret |-> IF o.res = "Ok" THEN "Ok"
               ELSE IF o.res = "Full" THEN "CacheFull" ELSE "InternalError"]
      : o \in cache_insert(add_dirty(new_page(s, id), id), id) }

next_db_size_mutant(old_db_size, ptrmap_due) == old_db_size - 1

\* new_db_size of Pager::allocate_page: the id of the new data page.
next_db_size(old_db_size, ptrmap_due) ==
    IF ptrmap_due THEN old_db_size + 2 ELSE old_db_size + 1

\* Pager::allocate_page.  ret is "Ok" (id: the new page), or the error.
allocate_page(s) ==
    UNION { IF h.ret # "Ok" THEN {[st |-> s, ret |-> h.ret, id |-> 0]}
      ELSE
        LET old_db_size == h.st.hdr.database_size
            ptrmap_due == /\ h.st.avm = "Full"
                          /\ is_ptrmap_page(old_db_size + 1, PageSize)
            after_ptrmap ==
                IF ptrmap_due THEN insert_allocated(h.st, old_db_size + 1)
                ELSE {[st |-> h.st, ret |-> "Ok"]}
            new_db_size == next_db_size(old_db_size, ptrmap_due)
        IN  UNION { IF a.ret # "Ok" THEN {[st |-> a.st, ret |-> a.ret, id |-> 0]}
              ELSE UNION {
                  IF w.ret # "Ok" THEN {[st |-> a.st, ret |-> w.ret, id |-> 0]}
                  ELSE { [st |-> p.st, ret |-> p.ret,
                          id |-> IF p.ret = "Ok" THEN new_db_size ELSE 0]
                         : p \in insert_allocated(w.st, new_db_size) }
                  : w \in set_header_field(a.st, "database_size", new_db_size) }
              : a \in after_ptrmap }
      : h \in get_header_page(s) }

(* ---- btree_create ------------------------------------------------------ *)

\* An _async header getter: IO while the read of page 1 is in flight.
get_header_page_async(s) ==
    { IF o.ret = "Ok" /\ PAGE_LOCKED \in o.st.flags[1]
      THEN [st |-> o.st, ret |-> "IO"]
      ELSE [st |-> o.st, ret |-> o.ret]
      : o \in read_page(s, 1) }

\* Pager::ptrmap_put(db_page_no_to_update, entry_type, parent_page_no)
ptrmap_put(s, db_page_no_to_update, entry_type, parent_page_no) ==
    UNION {
      IF h.ret # "Ok" THEN {[st |-> h.st, ret |-> h.ret]}
      ELSE IF \/ db_page_no_to_update < FIRST_PTRMAP_PAGE_NO
              \/ is_ptrmap_page(db_page_no_to_update, PageSize)
      THEN {[st |-> h.st, ret |-> "InternalError"]}
      ELSE LET ptrmap_pg_no ==
                   get_ptrmap_page_no_for_db_page(db_page_no_to_update, PageSize)
           IN  UNION {
               IF off.ret # "Ok" THEN {[st |-> h.st, ret |-> off.ret]}
               ELSE
               { IF r.ret # "Ok" THEN [st |-> r.st, ret |-> r.ret]
                 ELSE IF not_loaded_yet(r.st, ptrmap_pg_no)
                 THEN [st |-> r.st, ret |-> "IO"]
                 ELSE IF off.offset + PTRMAP_ENTRY_SIZE
                             > r.st.content[ptrmap_pg_no].len
                 THEN [st |-> r.st, ret |-> "InternalError"]
                 ELSE [st |-> add_dirty(
                                [r.st EXCEPT !.content[ptrmap_pg_no].ptrmap =
                                    serialize_entry(@, off.offset, entry_type,
                                                    parent_page_no)],
                                ptrmap_pg_no),
                       ret |-> "Done"]
                 : r \in read_page(h.st, ptrmap_pg_no) }
               : off \in get_ptrmap_offset_in_page(db_page_no_to_update,
                                                   ptrmap_pg_no, PageSize) }
      : h \in get_header_page_async(s) }

\* Pager::ptrmap_get(target_page_num); entry is the Option<PtrmapEntry> of
\* Done.
ptrmap_get(s, target_page_num) ==
    LET none == [some |-> FALSE, entry_type |-> 0, parent_page_no |-> 0]
    IN
    UNION {
      IF h.ret # "Ok" THEN {[st |-> h.st, ret |-> h.ret, entry |-> none]}
      ELSE IF \/ target_page_num < FIRST_PTRMAP_PAGE_NO
              \/ is_ptrmap_page(target_page_num, PageSize)
      THEN {[st |-> h.st, ret |-> "Done", entry |-> none]}
      ELSE LET ptrmap_pg_no ==
                   get_ptrmap_page_no_for_db_page(target_page_num, PageSize)
           IN  UNION {
               IF off.ret # "Ok"
               THEN {[st |-> h.st, ret |-> off.ret, entry |-> none]}
               ELSE
               { IF r.ret # "Ok" THEN [st |-> r.st, ret |-> r.ret, entry |-> none]
                 ELSE IF not_loaded_yet(r.st, ptrmap_pg_no)
                 THEN [st |-> r.st, ret |-> "IO", entry |-> none]
                 ELSE IF off.offset + PTRMAP_ENTRY_SIZE
                             > r.st.content[ptrmap_pg_no].len
                 THEN [st |-> r.st, ret |-> "InternalError", entry |-> none]
                 ELSE LET e == deserialize_entry(
                                   r.st.content[ptrmap_pg_no].ptrmap, off.offset)
                      IN  IF e.some
                          THEN [st |-> r.st, ret |-> "Done", entry |-> e]
                          ELSE [st |-> r.st, ret |-> "Corrupt", entry |-> none]
                 : r \in read_page(h.st, ptrmap_pg_no) }
               : off \in get_ptrmap_offset_in_page(target_page_num,
                                                   ptrmap_pg_no, PageSize) }
      : h \in get_header_page_async(s) }

\* Pager::btree_create.  ret is "Done" (id: the root page), "IO" or the error.
btree_create(s) ==
    IF s.avm = "None"
    THEN { [st |-> a.st, ret |-> IF a.ret = "Ok" THEN "Done" ELSE a.ret,
            id |-> a.id] : a \in allocate_page(s) }
    ELSE UNION {
      IF h.ret # "Ok" THEN {[st |-> h.st, ret |-> h.ret, id |-> 0]}
      ELSE UNION {
        IF a.ret # "Ok" THEN {[st |-> a.st, ret |-> a.ret, id |-> 0]}
        ELSE { [st |-> p.st, ret |-> p.ret,
                id |-> IF p.ret = "Done" THEN a.id ELSE 0]
               : p \in ptrmap_put(a.st, a.id, PTRMAP_ROOTPAGE, 0) }
        : a \in allocate_page(h.st) }
      : h \in get_header_page_async(s) }

(* ---- rollback ---------------------------------------------------------- *)

\* No WAL call of a commit yet.
\* No flush is running.
NoFlush == [appends |-> <<>>]

\* The commit has not passed SyncWal.
NoSyncWal == [passed |-> FALSE, disabled |-> FALSE, should |-> FALSE]

NoBatch == [appends |-> <<>>, synced |-> FALSE, sync_err |-> FALSE,
            finish |-> "none", sync_wal |-> NoSyncWal, ran |-> {}]

CommitStart == [state |-> "Start", idx |-> 0, in_flight_writes |-> 0,
                dirty_pages |-> <<>>]

FlushStart == [state |-> "Start", idx |-> 0, in_flight_writes |-> 0,
               dirty_pages |-> <<>>]

FreeStart == [state |-> "Start", page |-> 0, trunk_page |-> 0]

clear_dirty_pages_mutant(s) == s

\* self.dirty_pages.borrow_mut().clear()
clear_dirty_pages(s) == [s EXCEPT !.dirty = {}]

reset_internal_states_mutant(s) == [s EXCEPT !.commit = CommitStart]

\* Pager::reset_internal_states
reset_internal_states(s) ==
    [s EXCEPT !.ckpt = "Checkpoint", !.ckpt_inflight = 0, !.syncing = FALSE,
              !.flush = FlushStart, !.commit = CommitStart]

\* Wal::rollback: the frames appended since the last commit are dropped, a
\* read of page 1 returns the committed header again.
wal_rollback(s) ==
    [s EXCEPT !.wal.hdr = s.wal.chdr, !.hdr = s.wal.chdr,
              !.wal.img = s.wal.cimg, !.content = s.wal.cimg,
              !.batch = NoBatch]

\* Pager::rollback; cache.clear().expect(..) panics if a page is pinned.
rollback(s) ==
    LET s1 == clear_dirty_pages(s)
        s2 == reset_internal_states(s1)
        s3 == unset_dirty_all_pages(s2)
        c == cache_clear(s3)
    IN  IF c.res # "Ok" THEN {[st |-> s3, ret |-> "Panic"]}
        ELSE {[st |-> wal_rollback(c.st), ret |-> "Ok"],
              [st |-> c.st, ret |-> "Err"]}

clear_page_cache_mutant(s) ==
    [st |-> unset_dirty_all_pages(clear_dirty_pages(s)), ret |-> "Ok"]

\* Pager::clear_page_cache
clear_page_cache(s) ==
    LET s1 == clear_dirty_pages(s)
        c == cache_clear(unset_dirty_all_pages(s1))
    IN  IF c.res # "Ok" THEN [st |-> c.st, ret |-> "Panic"]
        ELSE [st |-> c.st, ret |-> "Ok"]

\* Pager::begin_read_tx; changed is the WAL's answer.
begin_read_tx(s, changed) ==
    {[st |-> s, ret |-> "Err"]} \cup
    {IF changed THEN clear_page_cache(s) ELSE [st |-> s, ret |-> "Ok"]}

(* ---- the WAL, as the pager calls it ----------------------------------- *)

\* The orders in which iterating the HashSet of dirty ids can yield them.
Orders(S) ==
    {f \in [1..Cardinality(S) -> S] : \A i, j \in DOMAIN f : i # j => f[i] # f[j]}

\* Wal::append_frame(page, db_size, write_counter): an error, or the frame is
\* in the WAL and its write is in flight (1) or already acknowledged (0).
\* The frame holds the page as it is now: for page 1, the header.  For a
\* commit, batch.appends keeps the page id and the db_size of the call, and
\* the database_size of the header when the call was made.
wal_append_frame(s, page_id, db_size, commit) ==
    {[st |-> s, res |-> "Err", in_flight |-> 0]} \cup
    { [st |-> [s EXCEPT
                 !.wal.hdr = IF page_id = 1 THEN s.hdr ELSE @,
                 !.wal.img[page_id] = s.content[page_id],
                 !.batch.appends =
                     IF commit
                     THEN Append(@, <<page_id, db_size, s.hdr.database_size>>)
                     ELSE @,
                 !.flushed.appends =
                     IF commit THEN @ ELSE Append(@, <<page_id, db_size>>)],
       res |-> "Ok", in_flight |-> n] : n \in {0, 1} }

\* Wal::sync(): IO, an error, or Done.
wal_sync(s) ==
    { [st |-> [s EXCEPT !.batch.synced = (r = "Done"),
                        !.batch.sync_err = (r = "Err")], res |-> r]
      : r \in {"IO", "Err", "Done"} }

\* Wal::finish_append_frames_commit(): an error, or the appended frames are
\* committed.  batch.finish keeps whether the last sync() of the commit had
\* returned Done when the call was made.
wal_finish_append_frames_commit(s) ==
    LET called == IF s.batch.synced THEN "synced" ELSE "unsynced"
    IN  {[st |-> [s EXCEPT !.batch.finish = called], res |-> "Err"],
         [st |-> [s EXCEPT !.wal.chdr = s.wal.hdr, !.wal.cimg = s.wal.img,
                           !.batch.finish = called],
          res |-> "Ok"]}

\* Wal::checkpoint(pager, write_counter, Passive): IO, an error, or Done with
\* the WAL's CheckpointResult; writes to the database file may be in flight.
wal_checkpoint_call(s) ==
    {[st |-> s, res |-> "Err"]} \cup
    { [st |-> [s EXCEPT !.ckpt_inflight = n], res |-> r]
      : n \in {s.ckpt_inflight, 1}, r \in {"IO", "Done"} }

\* sqlite3_ondisk::begin_sync(db_file, syncing): an error, or the fsync is
\* started and may have completed already.
begin_sync(s) ==
    {[st |-> s, res |-> "Err"]} \cup
    { [st |-> [s EXCEPT !.syncing = b], res |-> "Ok"] : b \in BOOLEAN }

(* ---- checkpoint -------------------------------------------------------- *)

still_syncing_mutant(s) == FALSE

\* *self.syncing.borrow() in the WaitSyncDbFile arm of Pager::checkpoint
still_syncing(s) == s.syncing

\* One turn of the loop of Pager::checkpoint; res is the local
\* checkpoint_result ("default" until the WAL's result is assigned); call
\* is the call the turn made, with its answer.
checkpoint_step(s, res) ==
    CASE s.ckpt = "Checkpoint" ->
           { IF o.res = "Done"
             THEN [st |-> [o.st EXCEPT !.ckpt = "SyncDbFile"], ret |-> "cont",
                   res |-> "wal", call |-> "wal.checkpoint Done"]
             ELSE [st |-> o.st, ret |-> o.res, res |-> res,
                   call |-> "wal.checkpoint"]
             : o \in wal_checkpoint_call(s) }
      [] s.ckpt = "SyncDbFile" ->
           { IF o.res = "Ok"
             THEN [st |-> [o.st EXCEPT !.ckpt = "WaitSyncDbFile"],
                   ret |-> "cont", res |-> res, call |-> "begin_sync Ok"]
             ELSE [st |-> s, ret |-> "Err", res |-> res,
                   call |-> "begin_sync"]
             : o \in begin_sync(s) }
      [] s.ckpt = "WaitSyncDbFile" ->
           IF still_syncing(s)
           THEN {[st |-> s, ret |-> "IO", res |-> res, call |-> "none"]}
           ELSE {[st |-> [s EXCEPT !.ckpt = "CheckpointDone"], ret |-> "cont",
                  res |-> res, call |-> "none"]}
      [] s.ckpt = "CheckpointDone" ->
           IF s.ckpt_inflight > 0
           THEN {[st |-> s, ret |-> "IO", res |-> res, call |-> "none"]}
           ELSE {[st |-> [s EXCEPT !.ckpt = "Checkpoint"], ret |-> "Done",
                  res |-> res, call |-> "none"]}

\* The loop of Pager::checkpoint; calls are the calls of its turns, in
\* order.
RECURSIVE checkpoint_loop(_, _)
checkpoint_loop(s, res) ==
    UNION { IF o.ret = "cont"
            THEN { [st |-> r.st, ret |-> r.ret, res |-> r.res,
                    calls |-> <<o.call>> \o r.calls]
                   : r \in checkpoint_loop(o.st, o.res) }
            ELSE {[st |-> o.st, ret |-> o.ret, res |-> o.res,
                   calls |-> <<o.call>>]}
            : o \in checkpoint_step(s, res) }

\* Pager::checkpoint
checkpoint(s) == checkpoint_loop(s, "default")

checkpoint_clears_cache_mutant(s) == [st |-> s, res |-> "Ok"]

\* self.page_cache.write().clear() at the end of wal_checkpoint.
checkpoint_clears_cache(s) == cache_clear(s)

\* Pager::wal_checkpoint: with the checkpoint disabled, an empty result at
\* once; else the caller is blocked until the WAL checkpoint is done (an
\* error of it panics, an error of the I/O pump is returned) and then the
\* cache is cleared.
wal_checkpoint(s, wal_checkpoint_disabled) ==
    IF wal_checkpoint_disabled THEN {[st |-> s, ret |-> "Ok"]}
    ELSE LET c == checkpoint_clears_cache(s)
         IN  {[st |-> s, ret |-> "Panic"],
              [st |-> s, ret |-> "Err"],
              [st |-> c.st,
               ret |-> IF c.res = "Ok" THEN "Ok" ELSE "InternalError"]}

\* The loop of checkpoint_shutdown: wal.sync() is called again, after
\* io.run_once(), as long as it returns Ok(IO); attempts counts the turns.
\* ret: "left" when the loop is left, with the result of the last sync(),
\* or the error of run_once.
RECURSIVE sync_before_shutdown(_, _)
sync_before_shutdown(s, attempts) ==
    UNION { IF y.res = "IO"
            THEN {[st |-> y.st, ret |-> "Err", sync |-> y.res]} \cup
                 (IF attempts + 1 < MaxAttempts
                  THEN sync_before_shutdown(y.st, attempts + 1)
                  ELSE {})
            ELSE {[st |-> y.st, ret |-> "left", sync |-> y.res]}
            : y \in wal_sync(s) }

\* Pager::checkpoint_shutdown.  sync is the result of the last wal.sync(),
\* invoked whether wal_checkpoint was called.
checkpoint_shutdown(s, wal_checkpoint_disabled) ==
    UNION { IF y.ret # "left"
            THEN {[st |-> y.st, ret |-> y.ret, sync |-> y.sync,
                   invoked |-> FALSE]}
            ELSE { [st |-> c.st, ret |-> c.ret, sync |-> y.sync,
                    invoked |-> TRUE]
                   : c \in wal_checkpoint(y.st, wal_checkpoint_disabled) }
            : y \in sync_before_shutdown(s, 0) }

\* The DIRTY flag cleared on every page of ids.
clear_dirty_all(s, ids) ==
    [s EXCEPT !.flags = [p \in Pages |->
                           IF p \in ids THEN @[p] \ {PAGE_DIRTY} ELSE @[p]]]

\* The page images a frame handed to wal_insert_frame may carry.
FrameImages == {ZeroPage, [ZeroPage EXCEPT !.next_trunk = 1]}

copy_from_slice_mutant(s, page_number, raw_page) == s

\* content.as_ptr().copy_from_slice(raw_page) on the cached page.
copy_from_slice(s, page_number, raw_page) ==
    [s EXCEPT !.content[page_number] = raw_page]

\* Pager::wal_insert_frame for a frame of page page_number that carries
\* raw_page: write_frame_raw fails, or the frame is in the WAL; a cached page
\* takes the bytes of the frame and is marked dirty (get_contents panics on
\* a page without a buffer); for a commit frame the loop over the dirty set
\* panics at an id without a page in the cache.
wal_insert_frame(s, page_number, raw_page, is_commit_frame) ==
    {[st |-> s, ret |-> "Err"]} \cup
    { LET w  == [s EXCEPT !.wal.img[page_number] = raw_page]
          s1 == IF page_number \in w.cache
                THEN add_dirty(copy_from_slice(w, page_number, raw_page),
                               page_number)
                ELSE w
      IN  IF page_number \in w.cache /\ PAGE_LOADED \notin w.flags[page_number]
          THEN [st |-> w, ret |-> "Panic"]
          ELSE IF ~is_commit_frame THEN [st |-> s1, ret |-> "Ok"]
          ELSE IF ~(s1.dirty \subseteq s1.cache)
          THEN [st |-> s1, ret |-> "Panic"]
          ELSE [st |-> clear_dirty_pages(clear_dirty_all(s1, s1.dirty)),
                ret |-> "Ok"] }

(* ---- flush and commit -------------------------------------------------- *)

\* The page of the snapshot as AppendFrame and WaitAppendFrame fetch it:
\* cache.get(..) must find it and contents.as_ref().unwrap() must succeed.
snapshot_page_usable(s, page_id) ==
    page_id \in s.cache /\ PAGE_LOADED \in s.flags[page_id]

clear_dirty_mutant(s, page_id) == s

\* Page::clear_dirty
clear_dirty(s, page_id) == [s EXCEPT !.flags[page_id] = @ \ {PAGE_DIRTY}]

\* The snapshot of a flush or commit is not read after its last frame (the
\* next Start replaces it): the model forgets it there.
forget(info) == [info EXCEPT !.dirty_pages = <<>>, !.idx = 0]

write_in_flight_mutant(info) == FALSE

\* *in_flight.borrow() > 0 in the WaitAppendFrame arms
write_in_flight(info) == info.in_flight_writes > 0

\* Pager::cacheflush: one state of the FSM per call.
cacheflush(s) ==
    LET fi == s.flush
        n == Len(fi.dirty_pages)
    IN
    CASE fi.state = "Start" ->
           IF s.dirty = {} THEN {[st |-> s, ret |-> "Done"]}
           ELSE { [st |-> [s EXCEPT !.flush.dirty_pages = dp,
                                    !.flush.state = "AppendFrame",
                                    !.flush.idx = 0,
                                    !.flushed = NoFlush],
                   ret |-> "IO"] : dp \in Orders(s.dirty) }
      [] fi.state = "AppendFrame" ->
           LET page_id == fi.dirty_pages[fi.idx + 1]
           IN  IF ~snapshot_page_usable(s, page_id)
               THEN {[st |-> s, ret |-> "Panic"]}
               ELSE { IF a.res # "Ok" THEN [st |-> s, ret |-> "Err"]
                      ELSE [st |-> [a.st EXCEPT
                                      !.flush.in_flight_writes = @ + a.in_flight,
                                      !.flush.state = "WaitAppendFrame"],
                            ret |-> "IO"]
                      : a \in wal_append_frame(s, page_id, 0, FALSE) }
      [] fi.state = "WaitAppendFrame" ->
           LET page_id == fi.dirty_pages[fi.idx + 1]
               is_last_page == fi.idx = n - 1
           IN  IF write_in_flight(fi) THEN {[st |-> s, ret |-> "IO"]}
               ELSE IF ~snapshot_page_usable(s, page_id)
               THEN {[st |-> s, ret |-> "Panic"]}
               ELSE LET s1 == clear_dirty(s, page_id)
                    IN  IF is_last_page
                        THEN {[st |-> [clear_dirty_pages(s1) EXCEPT
                                         !.flush = forget([@ EXCEPT
                                                     !.state = "Start"])],
                               ret |-> "Done"]}
                        ELSE {[st |-> [s1 EXCEPT !.flush.state = "AppendFrame",
                                                 !.flush.idx = fi.idx + 1],
                               ret |-> "IO"]}

frame_db_size_mutant(is_last_frame, db_size) == db_size

\* The db_size a commit passes to append_frame.
frame_db_size(is_last_frame, db_size) == IF is_last_frame THEN db_size ELSE 0

page_to_append_mutant(info) == info.dirty_pages[1]

\* The page of the snapshot at current_page_to_append_idx.
page_to_append(info) == info.dirty_pages[info.idx + 1]

sync_passes_mutant(res) == res # "Err"

\* return_if_io!(wal.sync()): the SyncWal state is left only with Done.
sync_passes(res) == res = "Done"

skip_checkpoint_mutant(wal_checkpoint_disabled, should_checkpoint) ==
    wal_checkpoint_disabled

\* wal_checkpoint_disabled || !self.wal.borrow().should_checkpoint()
skip_checkpoint(wal_checkpoint_disabled, should_checkpoint) ==
    wal_checkpoint_disabled \/ ~should_checkpoint

NoHist == [snapshot |-> <<>>, appends |-> <<>>]

\* One turn of the loop of Pager::commit_dirty_pages.  ret: "cont" (next
\* turn), "break" (the loop is left with result), or what the call returns.
\* ckres is the local checkpoint_result; hist is the snapshot and the frames
\* of the batch, once this call has appended the last of them.
commit_step(s, wal_checkpoint_disabled, ckres, hist) ==
    LET ci == s.commit
        n == Len(ci.dirty_pages)
        out(st, ret, result) ==
            [st |-> st, ret |-> ret, result |-> result, ckres |-> ckres,
             hist |-> hist]
    IN
    CASE ci.state = "Start" ->
           IF s.dirty = {} THEN {out(s, "Done", "WalWritten")}
           ELSE { out([s EXCEPT !.commit.dirty_pages = dp,
                                !.commit.state = "AppendFrame",
                                !.commit.idx = 0,
                                !.batch = NoBatch], "cont", "")
                  : dp \in Orders(s.dirty) }
      [] ci.state = "AppendFrame" ->
           LET page_id == page_to_append(ci)
               is_last_frame == ci.idx = n - 1
           IN  IF ~snapshot_page_usable(s, page_id) THEN {out(s, "Panic", "")}
               ELSE UNION {
                 IF h.ret # "Ok" THEN {out(s, "Err", "")}
                 ELSE LET db_size == frame_db_size(is_last_frame,
                                                   h.st.hdr.database_size)
                      IN  { IF a.res # "Ok" THEN out(h.st, "Err", "")
                            ELSE out([a.st EXCEPT
                                       !.commit.in_flight_writes = @ + a.in_flight,
                                       !.commit.state = "WaitAppendFrame"],
                                     "cont", "")
                            : a \in wal_append_frame(h.st, page_id, db_size, TRUE) }
                 : h \in get_header_page(s) }
      [] ci.state = "WaitAppendFrame" ->
           LET page_id == ci.dirty_pages[ci.idx + 1]
               is_last_frame == ci.idx = n - 1
           IN  IF write_in_flight(ci) THEN {out(s, "IO", "")}
               ELSE IF ~snapshot_page_usable(s, page_id)
               THEN {out(s, "Panic", "")}
               ELSE LET s1 == clear_dirty(s, page_id)
                    IN  IF is_last_frame
                        THEN LET c == cache_clear(s1)
                             IN  IF c.res # "Ok" THEN {out(s1, "Panic", "")}
                                 ELSE {[st |-> [clear_dirty_pages(c.st) EXCEPT
                                                  !.batch.appends = <<>>,
                                                  !.commit = forget([@ EXCEPT
                                                      !.state = "SyncWal"])],
                                        ret |-> "cont", result |-> "",
                                        ckres |-> ckres,
                                        hist |-> [snapshot |-> ci.dirty_pages,
                                                  appends |-> s.batch.appends]]}
                        ELSE {out([s1 EXCEPT !.commit.state = "AppendFrame",
                                             !.commit.idx = ci.idx + 1],
                                  "cont", "")}
      [] ci.state = "SyncWal" ->
           UNION {
             IF ~sync_passes(y.res) THEN {out(y.st, y.res, "")}
             ELSE { LET y1 == [y.st EXCEPT !.batch.sync_wal =
                                  [passed |-> TRUE,
                                   disabled |-> wal_checkpoint_disabled,
                                   should |-> should_checkpoint]]
                    IN  IF skip_checkpoint(wal_checkpoint_disabled,
                                           should_checkpoint)
                        THEN out([y1 EXCEPT !.commit.state = "Start"],
                                 "break", "WalWritten")
                        ELSE out([y1 EXCEPT !.commit.state = "Checkpoint"],
                                 "cont", "")
                    : should_checkpoint \in BOOLEAN }
             : y \in wal_sync(s) }
      [] ci.state = "Checkpoint" ->
           { IF c.ret # "Done"
             THEN out([c.st EXCEPT !.batch.ran = @ \cup {"checkpoint"}],
                      c.ret, "")
             ELSE [st |-> [c.st EXCEPT !.commit.state = "SyncDbFile",
                                       !.batch.ran = @ \cup {"checkpoint"}],
                   ret |-> "cont", result |-> "", ckres |-> c.res,
                   hist |-> hist]
             : c \in checkpoint(s) }
      [] ci.state = "SyncDbFile" ->
           { IF b.res # "Ok" THEN out(s, "Err", "")
             ELSE out([b.st EXCEPT !.commit.state = "WaitSyncDbFile",
                                   !.batch.ran = @ \cup {"begin_sync"}],
                      "cont", "")
             : b \in begin_sync(s) }
      [] ci.state = "WaitSyncDbFile" ->
           IF s.syncing THEN {out(s, "IO", "")}
           ELSE {out([s EXCEPT !.commit.state = "Start"], "break", "Checkpointed")}

RECURSIVE commit_loop(_, _, _, _)
commit_loop(s, wal_checkpoint_disabled, ckres, hist) ==
    UNION { IF o.ret = "cont"
            THEN commit_loop(o.st, wal_checkpoint_disabled, o.ckres, o.hist)
            ELSE {o}
            : o \in commit_step(s, wal_checkpoint_disabled, ckres, hist) }

left_by_break_mutant(ret) == ret \in {"break", "Err"}

\* The loop of commit_dirty_pages is left by a break, so that the code
\* after it runs: return_if_io! and ? return from the function instead.
left_by_break(ret) == ret = "break"

\* Pager::commit_dirty_pages: the loop, then finish_append_frames_commit
\* for the runs that leave the loop with break (finish_called).
commit_dirty_pages(s, wal_checkpoint_disabled) ==
    UNION { IF ~left_by_break(o.ret)
            THEN {[st |-> o.st, ret |-> o.ret, result |-> o.result,
                   ckres |-> o.ckres, hist |-> o.hist,
                   finish_called |-> FALSE]}
            ELSE { [st |-> f.st,
                    ret |-> IF f.res = "Ok" THEN "Done" ELSE "Err",
                    result |-> IF f.res = "Ok" THEN o.result ELSE "",
                    ckres |-> o.ckres, hist |-> o.hist,
                    finish_called |-> TRUE]
                   : f \in wal_finish_append_frames_commit(o.st) }
            : o \in commit_loop(s, wal_checkpoint_disabled, "default", NoHist) }

ends_tx_mutant(commit_status) == commit_status # "Err"

\* The arm IOResult::Done(_) of the match on commit_status in end_tx.
ends_tx(commit_status) == commit_status = "Done"

\* Pager::end_tx.  calls lists, in order, what the call called of
\* commit_dirty_pages with its finish_append_frames_commit, the WAL's
\* end_write_tx and end_read_tx, and update_schema_if_newer, which may fail;
\* do_rollback is the parameter rollback.
end_tx(s, do_rollback, schema_did_change, wal_checkpoint_disabled) ==
    IF do_rollback
    THEN {[st |-> s, ret |-> "Done", result |-> "Rollback",
           calls |-> <<"end_write_tx", "end_read_tx">>]}
    ELSE UNION { LET commit == <<"commit_dirty_pages">> \o
                               (IF o.finish_called
                                THEN <<"finish_append_frames_commit">>
                                ELSE <<>>)
                     ended == commit \o <<"end_write_tx", "end_read_tx">>
                 IN  IF ~ends_tx(o.ret)
                     THEN {[st |-> o.st, ret |-> o.ret, result |-> "",
                            calls |-> commit]}
                     ELSE IF ~schema_did_change
                     THEN {[st |-> o.st, ret |-> o.ret, result |-> o.result,
                            calls |-> ended]}
                     ELSE {[st |-> o.st, ret |-> r,
                            result |-> IF r = "Err" THEN "" ELSE o.result,
                            calls |-> ended \o <<"update_schema_if_newer">>]
                           : r \in {o.ret, "Err"}}
                 : o \in commit_dirty_pages(s, wal_checkpoint_disabled) }

(* ---- free_page ------------------------------------------------------- *)

\* Pager::usable_space: page_size - reserved_space of the header.
ReservedSpace == 0

usable_space == PageSize - ReservedSpace

TRUNK_PAGE_HEADER_SIZE == 8

LEAF_ENTRY_SIZE == 4

RESERVED_SLOTS == 2

\* (self.usable_space() / LEAF_ENTRY_SIZE) - RESERVED_SLOTS
max_free_list_entries == (usable_space \div LEAF_ENTRY_SIZE) - RESERVED_SLOTS

trunk_has_room_mutant(number_of_leaf_pages) ==
    number_of_leaf_pages <= max_free_list_entries

\* number_of_leaf_pages < max_free_list_entries as u32
trunk_has_room(number_of_leaf_pages) ==
    number_of_leaf_pages < max_free_list_entries

\* The two write_u32 of the AddToTrunk arm: the leaf count, and the freed
\* page in the slot after the last leaf.
add_leaf(s, trunk, page_id) ==
    LET number_of_leaf_pages == s.content[trunk].leaf_count
        offset == TRUNK_PAGE_HEADER_SIZE
                    + number_of_leaf_pages * LEAF_ENTRY_SIZE
    IN  [s EXCEPT !.content[trunk].leaf_count = number_of_leaf_pages + 1,
                  !.content[trunk].leaves =
                      {e \in @ : e[1] # offset} \cup {<<offset, page_id>>}]

make_trunk_mutant(s, page, trunk_page_id) ==
    [s EXCEPT !.content[page].next_trunk = 0,
              !.content[page].leaf_count = 0]

\* The two write_u32 of the NewTrunk arm: the next trunk and a leaf count
\* of zero.
make_trunk(s, page, trunk_page_id) ==
    [s EXCEPT !.content[page].next_trunk = trunk_page_id,
              !.content[page].leaf_count = 0]

below_first_page_mutant(page_id) == page_id < 1

\* page_id < 2, the left side of the range check of the Start arm.
below_first_page(page_id) == page_id < 2

\* Page::clear_uptodate
clear_uptodate(s, id) == [s EXCEPT !.flags[id] = @ \ {PAGE_UPTODATE}]

\* The trunk pages of the free list of image c from page trunk on, in the
\* order of their next-trunk pointers (offset 0), at most fuel of them.
RECURSIVE trunk_chain(_, _, _)
trunk_chain(c, trunk, fuel) ==
    IF trunk = 0 \/ fuel = 0 THEN <<>>
    ELSE <<trunk>> \o trunk_chain(c, c[trunk].next_trunk, fuel - 1)

\* The leaf entries of a trunk page: the slots below its leaf count
\* (offset 4), from offset 8 on.
leaf_entries(c, trunk) ==
    {e \in c[trunk].leaves :
        e[1] < TRUNK_PAGE_HEADER_SIZE + LEAF_ENTRY_SIZE * c[trunk].leaf_count}

\* How often page id occurs in the free list that begins at trunk, as a
\* trunk page or as a leaf.
RECURSIVE occurrences(_, _, _)
occurrences(c, chain, id) ==
    IF chain = <<>> THEN 0
    ELSE (IF Head(chain) = id THEN 1 ELSE 0)
         + Cardinality({e \in leaf_entries(c, Head(chain)) : e[2] = id})
         + occurrences(c, Tail(chain), id)

\* The pages of the free list that begins with the trunks of chain: the
\* trunks and what their leaf counts say.
RECURSIVE chain_pages(_, _)
chain_pages(c, chain) ==
    IF chain = <<>> THEN 0
    ELSE 1 + c[Head(chain)].leaf_count + chain_pages(c, Tail(chain))

\* The free-page FSM holds references to page objects; the model names them
\* by page id.

\* One turn of the loop of Pager::free_page(page, page_id); provided says
\* whether page is Some.  ret: "cont", "break", or what the call returns.
free_step(s, provided, page_id) ==
    LET fs == s.free
        out(st, ret) == [st |-> st, ret |-> ret]
    IN
    CASE fs.state = "Start" ->
           IF below_first_page(page_id) THEN {out(s, "Corrupt")}
           ELSE UNION {
             IF h.ret # "Ok" THEN {out(s, h.ret)}
             ELSE IF page_id > h.st.hdr.database_size THEN {out(h.st, "Corrupt")}
             ELSE UNION {
               IF r.ret # "Ok" THEN {out(h.st, r.ret)}
               ELSE UNION {
                 IF g.ret # "Ok" THEN {out(r.st, g.ret)}
                 ELSE { IF w.ret # "Ok" THEN out(g.st, w.ret)
                        ELSE out([w.st EXCEPT !.free =
                                    IF w.st.hdr.freelist_trunk_page # 0
                                    THEN [state |-> "AddToTrunk",
                                          page |-> page_id, trunk_page |-> 0]
                                    ELSE [state |-> "NewTrunk",
                                          page |-> page_id, trunk_page |-> 0]],
                                 "cont")
                        : w \in set_header_field(g.st, "freelist_pages",
                                     g.st.hdr.freelist_pages + 1) }
                 : g \in get_header_page(r.st) }
               : r \in IF provided THEN {[st |-> h.st, ret |-> "Ok"]}
                       ELSE read_page(h.st, page_id) }
             : h \in get_header_page(s) }
      [] fs.state = "AddToTrunk" ->
           UNION {
             IF h.ret # "Ok" THEN {out(s, h.ret)}
             ELSE LET trunk_page_id == h.st.hdr.freelist_trunk_page
                      fetched ==
                          IF fs.trunk_page # 0 THEN {[st |-> h.st, ret |-> "Ok"]}
                          ELSE IF trunk_page_id = 0
                          THEN {[st |-> h.st, ret |-> "Err"],
                                [st |-> h.st, ret |-> "Panic"]}
                          ELSE { [st |-> IF r.ret = "Ok"
                                         THEN [r.st EXCEPT !.free.trunk_page =
                                                   trunk_page_id]
                                         ELSE r.st,
                                  ret |-> r.ret]
                                 : r \in read_page(h.st, trunk_page_id) }
                  IN  UNION {
                        IF r.ret # "Ok" THEN {out(r.st, r.ret)}
                        ELSE IF not_loaded_yet(r.st, r.st.free.trunk_page)
                        THEN {out(r.st, "IO")}
                        ELSE { IF ~trunk_has_room(
                                     r.st.content[r.st.free.trunk_page].leaf_count)
                               THEN out([r.st EXCEPT !.free.state = "NewTrunk",
                                                     !.free.trunk_page = 0],
                                        "cont")
                               ELSE IF r.st.free.trunk_page # trunk_page_id
                               THEN out(r.st, "Panic")
                               ELSE out(clear_uptodate(
                                          add_leaf(
                                            add_dirty(r.st, r.st.free.trunk_page),
                                            r.st.free.trunk_page, page_id),
                                          fs.page), "break") }
                        : r \in fetched }
             : h \in get_header_page(s) }
      [] fs.state = "NewTrunk" ->
           IF not_loaded_yet(s, fs.page) THEN {out(s, "IO")}
           ELSE IF fs.page # page_id THEN {out(s, "Panic")}
           ELSE LET s1 == add_dirty(s, fs.page)
                IN  UNION {
                      IF h.ret # "Ok" THEN {out(s1, h.ret)}
                      ELSE LET s2 == make_trunk(h.st, fs.page,
                                                h.st.hdr.freelist_trunk_page)
                           IN  { IF w.ret # "Ok" THEN out(s2, w.ret)
                                 ELSE out(clear_uptodate(w.st, fs.page), "break")
                                 : w \in set_header_field(
                                           s2, "freelist_trunk_page", page_id) }
                      : h \in get_header_page(s1) }

RECURSIVE free_loop(_, _, _)
free_loop(s, provided, page_id) ==
    UNION { IF o.ret = "cont" THEN free_loop(o.st, provided, page_id) ELSE {o}
            : o \in free_step(s, provided, page_id) }

suspended_free_mutant(s) == [s EXCEPT !.free = FreeStart]

\* return Ok(IOResult::IO) of free_page: free_page_state keeps the arm the
\* call is suspended in.
suspended_free(s) == s

\* Pager::free_page
free_page(s, provided, page_id) ==
    { IF o.ret = "break"
      THEN [st |-> [o.st EXCEPT !.free = FreeStart], ret |-> "Done"]
      ELSE IF o.ret = "IO" THEN [st |-> suspended_free(o.st), ret |-> "IO"]
      ELSE o
      : o \in free_loop(s, provided, page_id) }

(* ---- actions ----------------------------------------------------------- *)

NoInfo == [none |-> TRUE]

Call(op, id, ret, info) == [op |-> op, id |-> id, ret |-> ret, info |-> info]

\* What last holds after a step that is not a call of a pager method.
Quiet == Call("none", 0, "Ok", NoInfo)

\* A panic ends the process.
Running == last.ret # "Panic"

\* A pager of the pagers that share db_state: its allocate_page1_state with
\* the write counter of Writing, whether its cache holds page 1 (cached),
\* where it is in maybe_allocate_page1 (pc), and as history what its last
\* call saw and returned.
PagerAt(state) ==
    [state |-> state, write_counter |-> 0, cached |-> FALSE, pc |-> "idle",
     saw |-> "none", ret |-> "none"]

\* Pagers of a database that is initialised (Pager::new gives them Done).
\* writes and entered are history: the calls of begin_write_btree_page for
\* page 1, and the pagers that have entered Writing.
Page1Done ==
    [db_state |-> "Initialized", init_lock |-> 0,
     pagers |-> [i \in Pagers |-> PagerAt("Done")],
     writes |-> 0, entered |-> {}]

\* Pagers of a database that is not initialised (Pager::new gives them
\* Start).
Page1Fresh ==
    [db_state |-> "Uninitialized", init_lock |-> 0,
     pagers |-> [i \in Pagers |-> PagerAt("Start")],
     writes |-> 0, entered |-> {}]

\* Pager::allocating_page1 of pager me
allocating_page1(q, me) == q.pagers[me].state = "Writing"

may_allocate_page1_mutant(db_state, allocating) == db_state # "Initialized"

\* The arm of maybe_allocate_page1 that calls allocate_page1: the database
\* is empty and this pager is not writing, or this pager is the one that
\* writes page 1.
may_allocate_page1(db_state, allocating) ==
    \/ db_state = "Uninitialized" /\ ~allocating
    \/ db_state = "Initializing" /\ allocating

insert_page1_mutant(q, me) ==
    {[st |-> [q EXCEPT !.db_state = "Initialized"], ret |-> "Err"],
     [st |-> [q EXCEPT !.pagers[me].cached = TRUE,
                       !.db_state = "Initialized",
                       !.pagers[me].state = "Done"],
      ret |-> "Done"]}

\* The end of the Writing arm of allocate_page1: the cache of the pager
\* refuses page 1 and the error is returned, or it takes page 1 and then
\* the database is Initialized and the pager Done.
insert_page1(q, me) ==
    {[st |-> q, ret |-> "Err"],
     [st |-> [q EXCEPT !.pagers[me].cached = TRUE,
                       !.db_state = "Initialized",
                       !.pagers[me].state = "Done"],
      ret |-> "Done"]}

\* Pager::allocate_page1 of pager me.  begin_write_btree_page fails, or the
\* write of page 1 is scheduled and in flight (1) or acknowledged (0); the
\* insert of page 1 into the cache of the pager fails or succeeds.
allocate_page1(q, me) ==
    CASE q.pagers[me].state = "Start" ->
           LET q1 == [q EXCEPT !.db_state = "Initializing"]
           IN  {[st |-> q1, ret |-> "Err"]} \cup
               { [st |-> [q1 EXCEPT !.writes = @ + 1,
                                    !.pagers[me].state = "Writing",
                                    !.pagers[me].write_counter = n,
                                    !.entered = @ \cup {me}],
                  ret |-> "IO"] : n \in {0, 1} }
      [] q.pagers[me].state = "Writing" ->
           IF q.pagers[me].write_counter > 0 THEN {[st |-> q, ret |-> "IO"]}
           ELSE insert_page1(q, me)
      [] q.pagers[me].state = "Done" -> {[st |-> q, ret |-> "Panic"]}

\* The main thread of test_shared_cache (0) and the threads it spawns.
Spawned == 1..NumThreads

\* The keys the threads insert: the cache has room for all of them.
Keys == 1..CacheCap

\* The cache is not shared: the pager alone uses it.
NoThreads == [lock |-> 0, main |-> "none",
              pc |-> [t \in Spawned |-> "none"],
              key |-> [t \in Spawned |-> 0]]

\* No operation is under way.  free: the page of the free_page operation
\* that a caller began with the free-page FSM at Start (0: none),
\* freelist_pages as it was before, the calls of it that returned IO, and
\* whether its last call returned IO, so that the caller will repeat it.
NoFree == [page |-> 0, before |-> 0, ios |-> 0, pending |-> FALSE]

\* The run of Pager::checkpoint under way: whether the WAL checkpoint has
\* returned Done and whether the fsync of the database file was started,
\* the calls of the run that returned IO, and whether it has returned Done.
NoRun == [wal_done |-> FALSE, sync_started |-> FALSE, ios |-> 0,
          done |-> FALSE]

\* Where checkpoint_shutdown is: not called (idle), at wal.sync() of its
\* loop (sync), or at wal_checkpoint after the loop (checkpoint); its
\* argument and its counter _attempts.
NoShutdown == [pc |-> "idle", disabled |-> FALSE, attempts |-> 0]

\* The btree_create operation under way: whether its last call returned
\* IO, so that the caller will repeat it, and database_size as it was
\* before its first call.
NoCreate == [before |-> 0, pending |-> FALSE]

\* The pages freed by the free_page operations that have returned Done,
\* and whether every operation so far was a call for a valid page that was
\* not in the free list, repeated for the same page until it returned Done.
NoFreed == [ids |-> {}, ok |-> TRUE]

NoOps == [free |-> NoFree, ckpt |-> NoRun, shutdown |-> NoShutdown,
          create |-> NoCreate, freed |-> NoFreed]

\* No call of btree_create yet.
NoRoots == [roots |-> {}, failed |-> FALSE]

HeaderInit == [database_size |-> 1, freelist_trunk_page |-> 0,
               freelist_pages |-> 0, vacuum_mode_largest_root_page |-> 1]

\* A pager opened on an initialised database of one page.
Init ==
    /\ page_cache = {}
    /\ flags = [p \in Pages |-> {}]
    /\ pin_count = [p \in Pages |-> 0]
    /\ dirty_pages = {}
    /\ header = HeaderInit
    /\ wal = [hdr |-> HeaderInit, chdr |-> HeaderInit,
              img |-> [p \in Pages |-> ZeroPage],
              cimg |-> [p \in Pages |-> ZeroPage]]
    /\ commit_info = CommitStart
    /\ flush_info = FlushStart
    /\ checkpoint_state = "Checkpoint"
    /\ checkpoint_inflight = 0
    /\ syncing = FALSE
    /\ free_page_state = FreeStart
    /\ auto_vacuum_mode \in {"None", "Full"}
    /\ capacity = CacheCap
    /\ content = [p \in Pages |-> ZeroPage]
    /\ batch = NoBatch
    /\ created = NoRoots
    /\ page1 = Page1Done
    /\ flushed = NoFlush
    /\ threads = NoThreads
    /\ ops = NoOps
    /\ last = Quiet

\* A caller reads a page of the database.
ReadPage ==
    /\ Running
    /\ \E id \in 1..header.database_size : \E o \in read_page(St, id) :
          /\ Install(o.st)
          /\ last' = Call("read_page", id, o.ret,
                          [hit |-> o.hit, answered |-> o.answered,
                           found |-> o.found, wal_reads |-> o.wal_reads,
                           db_reads |-> o.db_reads])

\* The I/O backend completes the read of a page.
CompleteRead ==
    /\ Running
    /\ \E id \in Pages :
          /\ PAGE_LOCKED \in flags[id]
          /\ flags' = [flags EXCEPT ![id] = finish_read_page(@)]
          /\ last' = Quiet
    /\ UNCHANGED <<page_cache, pin_count, dirty_pages, header, wal,
                   commit_info, flush_info, checkpoint_state,
                   checkpoint_inflight, syncing, free_page_state,
                   auto_vacuum_mode, capacity,
                   content, batch, created, page1,
                   flushed, threads, ops>>

\* A caller changes a loaded page it got from the cache and marks it dirty.
AddDirty ==
    /\ Running
    /\ \E id \in page_cache :
          /\ PAGE_LOADED \in flags[id]
          /\ PAGE_LOCKED \notin flags[id]
          /\ Install(add_dirty(St, id))
          /\ last' = Quiet

AllocatePage ==
    /\ Running
    /\ next_db_size(header.database_size,
                    /\ auto_vacuum_mode = "Full"
                    /\ is_ptrmap_page(header.database_size + 1, PageSize))
          <= MaxPage
    /\ \E o \in allocate_page(St) :
          /\ Install(o.st)
          /\ last' = Call("allocate_page", o.id, o.ret, NoInfo)

\* The steps of maybe_allocate_page1 of pager me: the read of db_state, the
\* try_lock of init_lock, and the body that holds the lock until the call
\* returns.  The main pager does not move.
Page1Step(q) ==
    /\ page1' = q
    /\ last' = Quiet
    /\ UNCHANGED <<page_cache, flags, pin_count, dirty_pages, header, wal,
                   commit_info, flush_info, checkpoint_state,
                   checkpoint_inflight, syncing, free_page_state,
                   auto_vacuum_mode, capacity, content, batch, created,
                   flushed, threads, ops>>

MaybeAllocatePage1Enter ==
    \E me \in Pagers :
       /\ page1.pagers[me].pc = "idle"
       /\ page1.pagers[me].ret # "Panic"
       /\ IF page1.db_state # "Initialized"
          THEN Page1Step([page1 EXCEPT !.pagers[me].pc = "try_lock"])
          ELSE Page1Step([page1 EXCEPT !.pagers[me].saw = "initialized",
                                       !.pagers[me].ret = "Done"])

MaybeAllocatePage1TryLock ==
    \E me \in Pagers :
       /\ page1.pagers[me].pc = "try_lock"
       /\ IF page1.init_lock = 0
          THEN Page1Step([page1 EXCEPT !.init_lock = me,
                                       !.pagers[me].pc = "locked"])
          ELSE Page1Step([page1 EXCEPT !.pagers[me].pc = "idle",
                                       !.pagers[me].saw = "lock_held",
                                       !.pagers[me].ret = "IO"])

MaybeAllocatePage1Locked ==
    \E me \in Pagers :
       /\ page1.pagers[me].pc = "locked"
       /\ LET allocating == allocating_page1(page1, me)
              saw == IF page1.db_state = "Uninitialized" THEN "uninitialized"
                     ELSE IF page1.db_state = "Initialized" THEN "initialized"
                     ELSE IF allocating THEN "own_write"
                     ELSE "initializing"
              unlock(q, ret) ==
                  [q EXCEPT !.init_lock = 0, !.pagers[me].pc = "idle",
                            !.pagers[me].saw = saw, !.pagers[me].ret = ret]
          IN  IF may_allocate_page1(page1.db_state, allocating)
              THEN \E o \in allocate_page1(page1, me) :
                      Page1Step(unlock(o.st, o.ret))
              ELSE Page1Step(unlock(page1, "IO"))

\* The I/O backend acknowledges the write of page 1.
CompletePage1Write ==
    \E me \in Pagers :
       /\ page1.pagers[me].write_counter > 0
       /\ Page1Step([page1 EXCEPT !.pagers[me].write_counter = 0])

\* A call of ptrmap_get for a page of the database.
PtrmapGet ==
    /\ Running
    /\ \E id \in 1..header.database_size : \E o \in ptrmap_get(St, id) :
          /\ Install(o.st)
          /\ last' = Call("ptrmap_get", id, o.ret, [entry |-> o.entry])

\* A call of ptrmap_put for a page number, which need not be a page of the
\* database.
PtrmapPut ==
    /\ Running
    /\ \E id \in 1..MaxDataPage, entry_type \in PutTypes,
          parent_page_no \in PutParents :
       \E o \in ptrmap_put(St, id, entry_type, parent_page_no) :
          /\ Install(o.st)
          /\ last' = Call("ptrmap_put", id, o.ret,
                          [entry_type |-> entry_type,
                           parent_page_no |-> parent_page_no])

\* Pager::change_page_cache_size with a capacity, of at most largest pages,
\* that needs no eviction.
ChangePageCacheSizeTo(largest) ==
    /\ Running
    /\ \E c \in CacheCap..largest :
          /\ c # capacity
          /\ Cardinality(page_cache) <= c
          /\ Install(cache_resize(St, c))
          /\ last' = Call("change_page_cache_size", c, "Ok", NoInfo)

ChangePageCacheSize == ChangePageCacheSizeTo(LargeCacheCap)

\* A call of btree_create, first or repeated after IO, that allocates no
\* page past first, or past again when it is repeated.  created keeps the
\* roots of the calls that returned Done, and whether a call has failed.
BtreeCreateUpTo(first, again) ==
    /\ Running
    /\ next_db_size(header.database_size,
                    /\ auto_vacuum_mode = "Full"
                    /\ is_ptrmap_page(header.database_size + 1, PageSize))
          <= IF ops.create.pending THEN again ELSE first
    /\ \E o \in btree_create(St) :
          /\ Install([o.st EXCEPT
                        !.created =
                         IF o.ret = "Done" THEN [@ EXCEPT !.roots = @ \cup {o.id}]
                         ELSE IF o.ret = "IO" THEN @
                         ELSE [@ EXCEPT !.failed = TRUE],
                        !.ops.create =
                         IF o.ret # "IO" THEN NoCreate
                         ELSE [before |-> IF ops.create.pending
                                          THEN ops.create.before
                                          ELSE header.database_size,
                               pending |-> TRUE]])
          /\ last' = Call("btree_create", o.id, o.ret, NoInfo)

BtreeCreate == BtreeCreateUpTo(MaxPage, MaxPage)

\* The flush, the commit and its checkpoint are suspended, with the fsync of
\* the database file in progress.
Suspended ==
    /\ flush_info.state # "Start"
    /\ commit_info.state = "Checkpoint"
    /\ checkpoint_state = "WaitSyncDbFile"
    /\ syncing

Rollback ==
    /\ Running
    /\ \E o \in rollback(St) :
          /\ Install([o.st EXCEPT
                        !.flushed = IF o.st.flush.state = "Start"
                                    THEN NoFlush ELSE @])
          /\ last' = Call("rollback", 0, o.ret,
                          [suspended |-> Suspended])

\* A call of cacheflush, first or repeated.
Cacheflush ==
    /\ Running
    /\ \E o \in cacheflush(St) :
          /\ Install([o.st EXCEPT
                        !.flushed = IF o.ret = "Done" THEN NoFlush ELSE @])
          /\ last' = Call("cacheflush", 0, o.ret,
                          IF o.ret = "Done"
                          THEN IF flush_info.state = "Start" THEN NoFlush
                               ELSE o.st.flushed
                          ELSE NoInfo)

\* A call of free_page, first or repeated, with or without the page; keep
\* says whether the history of the freed pages is kept.
FreePageKeeping(keep) ==
    /\ Running
    /\ \/ free_page_state.state # "Start"
       \/ header.freelist_pages % max_free_list_entries < MaxFree
    /\ \E page_id \in 1..MaxPage, provided \in BOOLEAN :
          /\ provided => page_id \in page_cache
          /\ \E o \in free_page(St, provided, page_id) :
                /\ Install([o.st EXCEPT !.ops.free =
                       LET io == IF o.ret = "IO" THEN 1 ELSE 0
                       IN  IF o.ret \notin {"IO", "Done"} THEN NoFree
                           ELSE IF @.pending
                           THEN IF page_id = @.page
                                THEN [@ EXCEPT !.ios = IF @ + io <= MaxIos
                                                       THEN @ + io ELSE @,
                                               !.pending = o.ret = "IO"]
                                ELSE NoFree
                           ELSE IF free_page_state.state = "Start"
                           THEN [page |-> page_id,
                                 before |-> header.freelist_pages,
                                 ios |-> io, pending |-> o.ret = "IO"]
                           ELSE NoFree,
                                   !.ops.freed =
                       IF ~keep THEN @
                       ELSE [ids |-> IF o.ret = "Done"
                                     THEN @.ids \cup {page_id} ELSE @.ids,
                             ok |-> /\ @.ok
                                    /\ o.ret \in {"IO", "Done"}
                                    /\ IF ops.free.pending
                                       THEN page_id = ops.free.page
                                       ELSE occurrences(content,
                                              trunk_chain(content,
                                                header.freelist_trunk_page,
                                                LastPage),
                                              page_id) = 0]])
                /\ last' = Call("free_page", page_id, o.ret, NoInfo)

FreePage == FreePageKeeping(FALSE)

\* A caller pins a page it got from the cache (Page::pin).
Pin ==
    /\ Running
    /\ \E id \in page_cache :
          /\ pin_count[id] < MaxPin
          /\ pin_count' = [pin_count EXCEPT ![id] = @ + 1]
    /\ last' = Quiet
    /\ UNCHANGED <<page_cache, flags, dirty_pages, header, wal, commit_info,
                   flush_info, checkpoint_state, checkpoint_inflight, syncing,
                   free_page_state, auto_vacuum_mode, capacity,
                   content, batch, created, page1,
                   flushed, threads, ops>>

\* A caller unpins a page it had pinned (Page::unpin).
Unpin ==
    /\ Running
    /\ \E id \in Pages :
          /\ pin_count[id] > 0
          /\ pin_count' = [pin_count EXCEPT ![id] = @ - 1]
    /\ last' = Quiet
    /\ UNCHANGED <<page_cache, flags, dirty_pages, header, wal, commit_info,
                   flush_info, checkpoint_state, checkpoint_inflight, syncing,
                   free_page_state, auto_vacuum_mode, capacity,
                   content, batch, created, page1,
                   flushed, threads, ops>>

\* A frame of a page other than page 1 is inserted from outside.
WalInsertFrame ==
    /\ Running
    /\ \E page_number \in 2..MaxPage, raw_page \in FrameImages,
          is_commit_frame \in BOOLEAN :
       \E o \in wal_insert_frame(St, page_number, raw_page, is_commit_frame) :
          /\ Install(o.st)
          /\ last' = Call("wal_insert_frame", page_number, o.ret,
                          [raw_page |-> raw_page,
                           is_commit_frame |-> is_commit_frame])

\* A call of wal_checkpoint.
WalCheckpoint ==
    /\ Running
    /\ \E disabled \in BOOLEAN : \E o \in wal_checkpoint(St, disabled) :
          /\ Install(o.st)
          /\ last' = Call("wal_checkpoint", 0, o.ret,
                          [disabled |-> disabled])

\* A call of checkpoint_shutdown.
CheckpointShutdown ==
    /\ Running
    /\ \E disabled \in BOOLEAN : \E o \in checkpoint_shutdown(St, disabled) :
          /\ Install(o.st)
          /\ last' = Call("checkpoint_shutdown", 0, o.ret,
                          [disabled |-> disabled, sync |-> o.sync,
                           invoked |-> o.invoked])

\* A call of begin_read_tx; last keeps the cache and the dirty set it found.
BeginReadTx ==
    /\ Running
    /\ \E changed \in BOOLEAN : \E o \in begin_read_tx(St, changed) :
          /\ Install(o.st)
          /\ last' = Call("begin_read_tx", 0, o.ret,
                          [changed |-> changed, cache |-> page_cache,
                           dirty_pages |-> dirty_pages])

\* A call of commit_dirty_pages, first or repeated.  batch.sync_err says
\* whether a sync of this call has failed.
CommitDirtyPages ==
    /\ Running
    /\ \E disabled \in BOOLEAN :
       \E o \in commit_dirty_pages([St EXCEPT !.batch.sync_err = FALSE],
                                   disabled) :
          /\ Install([o.st EXCEPT
                        !.batch = IF o.ret = "Done" THEN NoBatch ELSE @])
          /\ last' = Call("commit_dirty_pages", 0, o.ret,
                          [hist |-> o.hist, finish |-> o.st.batch.finish,
                           result |-> o.result, ckres |-> o.ckres,
                           from |-> commit_info.state,
                           sync_err |-> o.st.batch.sync_err,
                           empty |-> commit_info.state = "Start"
                                       /\ dirty_pages = {},
                           sync_wal |-> o.st.batch.sync_wal,
                           ran |-> o.st.batch.ran])

\* A call of end_tx, first or repeated.  last keeps what the call called
\* and whether it found the commit at Start with an empty dirty set.
EndTx ==
    /\ Running
    /\ \E do_rollback, schema_did_change, disabled \in BOOLEAN :
       \E o \in end_tx(St, do_rollback, schema_did_change, disabled) :
          LET committed == ~do_rollback /\ (\E i \in DOMAIN o.calls : o.calls[i] = "end_write_tx")
          IN  /\ Install([o.st EXCEPT
                            !.batch = IF committed THEN NoBatch ELSE @])
              /\ last' = Call("end_tx", 0, o.ret,
                              [rollback |-> do_rollback, calls |-> o.calls,
                               result |-> o.result,
                               empty |-> commit_info.state = "Start"
                                           /\ dirty_pages = {}])

\* The I/O backend acknowledges the write of a frame of the commit.
CompleteCommitWrite ==
    /\ Running
    /\ commit_info.in_flight_writes > 0
    /\ commit_info' = [commit_info EXCEPT !.in_flight_writes = @ - 1]
    /\ last' = Quiet
    /\ UNCHANGED <<page_cache, flags, pin_count, dirty_pages, header, wal,
                   flush_info, checkpoint_state, checkpoint_inflight, syncing,
                   free_page_state, auto_vacuum_mode, capacity,
                   content, batch, created, page1,
                   flushed, threads, ops>>

\* The I/O backend acknowledges the write of a frame of the flush.
CompleteFlushWrite ==
    /\ Running
    /\ flush_info.in_flight_writes > 0
    /\ flush_info' = [flush_info EXCEPT !.in_flight_writes = @ - 1]
    /\ last' = Quiet
    /\ UNCHANGED <<page_cache, flags, pin_count, dirty_pages, header, wal,
                   commit_info, checkpoint_state, checkpoint_inflight, syncing,
                   free_page_state, auto_vacuum_mode, capacity,
                   content, batch, created, page1,
                   flushed, threads, ops>>

\* A position of the calls of a turn sequence that is the call c.
Called(calls, c) == {i \in DOMAIN calls : calls[i] = c}

\* A call of Pager::checkpoint, first or repeated.  The history of a run
\* that has returned Done is kept until the next call.
Checkpoint ==
    /\ Running
    /\ \E o \in checkpoint(St) :
          LET run == IF ops.ckpt.done THEN NoRun ELSE ops.ckpt
              io == IF o.ret = "IO" /\ run.ios < MaxIos THEN 1 ELSE 0
          IN  /\ Install([o.st EXCEPT !.ops.ckpt =
                     [wal_done |-> run.wal_done
                          \/ Called(o.calls, "wal.checkpoint Done") # {},
                      sync_started |-> run.sync_started
                          \/ Called(o.calls, "begin_sync Ok") # {},
                      ios |-> run.ios + io,
                      done |-> o.ret = "Done"]])
              /\ last' = Call("checkpoint", 0, o.ret,
                              [res |-> o.res, calls |-> o.calls])

\* The I/O backend acknowledges a write of the checkpoint.
CompleteCheckpointWrite ==
    /\ Running
    /\ checkpoint_inflight > 0
    /\ checkpoint_inflight' = checkpoint_inflight - 1
    /\ last' = Quiet
    /\ UNCHANGED <<page_cache, flags, pin_count, dirty_pages, header, wal,
                   commit_info, flush_info, checkpoint_state, syncing,
                   free_page_state, auto_vacuum_mode, capacity,
                   content, batch, created, page1,
                   flushed, threads, ops>>

\* The I/O backend completes the fsync of the database file.
CompleteSync ==
    /\ Running
    /\ syncing
    /\ syncing' = FALSE
    /\ last' = Quiet
    /\ UNCHANGED <<page_cache, flags, pin_count, dirty_pages, header, wal,
                   commit_info, flush_info, checkpoint_state,
                   checkpoint_inflight, free_page_state, auto_vacuum_mode,
                   capacity, content, batch, created, page1,
                   flushed, threads, ops>>

\* Transactions that allocate and change pages and commit them, with calls
\* in between the calls of a suspended commit, and are rolled back.
Next ==
    \/ CommitDirtyPages
    \/ CompleteCommitWrite
    \/ CompleteCheckpointWrite
    \/ CompleteSync
    \/ AddDirty
    \/ AllocatePage
    \/ Rollback

Spec == Init /\ [][Next]_vars

\* Readers of a database that grows, is flushed and is rolled back.
NextRead ==
    \/ ReadPage
    \/ CompleteRead
    \/ AllocatePage
    \/ Cacheflush
    \/ CompleteFlushWrite
    \/ Rollback

SpecRead == Init /\ [][NextRead]_vars

\* The pager used with cacheflush, without commits.
NextFlush ==
    \/ Cacheflush
    \/ CompleteFlushWrite
    \/ ReadPage
    \/ CompleteRead
    \/ AddDirty
    \/ AllocatePage

SpecFlush == Init /\ [][NextFlush]_vars

\* Transactions that change the first page of the database, flush and
\* commit it with the page pinned by cursors, and are rolled back at any
\* point.
NextRollback ==
    \/ Rollback
    \/ ReadPage
    \/ CompleteRead
    \/ AddDirty
    \/ Pin
    \/ Unpin
    \/ Cacheflush
    \/ CompleteFlushWrite
    \/ CommitDirtyPages
    \/ CompleteCommitWrite
    \/ CompleteCheckpointWrite
    \/ CompleteSync

SpecRollback == Init /\ [][NextRollback]_vars


\* Transactions that grow the database and change its pages, flush them to
\* the WAL, and are rolled back.
NextSize ==
    \/ AllocatePage
    \/ BtreeCreate
    \/ AddDirty
    \/ Cacheflush
    \/ CompleteFlushWrite
    \/ Rollback
    \/ CompleteRead

SpecSize == Init /\ [][NextSize]_vars

\* Allocations in a cache whose size the caller changes, flushed to the WAL
\* and rolled back.
NextAlloc ==
    \/ AllocatePage
    \/ ChangePageCacheSize
    \/ Cacheflush
    \/ CompleteFlushWrite
    \/ Rollback

SpecAlloc == Init /\ [][NextAlloc]_vars

\* New b-trees created one after the other on a fresh database, in a cache
\* whose size the caller changes, and their pointer-map entries looked up.
NextRoots ==
    \/ BtreeCreate
    \/ PtrmapGet
    \/ ChangePageCacheSize
    \/ CompleteRead

SpecRoots == Init /\ [][NextRoots]_vars

\* What the first five bytes of pointer-map page 2 hold in the file: zeroes,
\* an entry, or bytes that are no entry.
StoredBytes == {ZeroBytes, <<5, 0, 0, 0, 1>>, <<6, 0, 0, 0, 1>>}

\* The length of the buffer of page 2: a page, or less than an entry.
BufferLengths == {PageSize, PTRMAP_ENTRY_SIZE - 1}

PtrmapImage(bytes, len) ==
    [p \in Pages |->
       IF p = 2
       THEN [ZeroPage EXCEPT !.ptrmap = IF bytes = ZeroBytes THEN {}
                                       ELSE {<<0, bytes>>},
                             !.len = len]
       ELSE ZeroPage]

PtrmapHeader == [HeaderInit EXCEPT !.database_size = MaxPage]

\* A pager opened on an auto-vacuum database of MaxPage pages.
InitPtrmapPages ==
    /\ page_cache = {}
    /\ flags = [p \in Pages |-> {}]
    /\ pin_count = [p \in Pages |-> 0]
    /\ dirty_pages = {}
    /\ header = PtrmapHeader
    /\ \E bytes \in StoredBytes, len \in BufferLengths :
          /\ wal = [hdr |-> PtrmapHeader, chdr |-> PtrmapHeader,
                    img |-> PtrmapImage(bytes, len),
                    cimg |-> PtrmapImage(bytes, len)]
          /\ content = PtrmapImage(bytes, len)
    /\ commit_info = CommitStart
    /\ flush_info = FlushStart
    /\ checkpoint_state = "Checkpoint"
    /\ checkpoint_inflight = 0
    /\ syncing = FALSE
    /\ free_page_state = FreeStart
    /\ auto_vacuum_mode = "Full"
    /\ capacity = CacheCap
    /\ batch = NoBatch
    /\ created = NoRoots
    /\ page1 = Page1Done
    /\ flushed = NoFlush
    /\ threads = NoThreads
    /\ ops = NoOps
    /\ last = Quiet

\* Pointer-map entries are written and looked up.
NextPtrmapPages ==
    \/ PtrmapPut
    \/ PtrmapGet
    \/ CompleteRead

SpecPtrmapPages == InitPtrmapPages /\ [][NextPtrmapPages]_vars

\* B-trees are created in an auto-vacuum database that was opened with
\* MaxPage pages, by calls that are repeated while they return IO, in a
\* cache whose size the caller changes; the reads are completed by the I/O
\* backend.
NextCreate ==
    \/ BtreeCreateUpTo(LastPage - 1, LastPage)
    \/ CompleteRead
    \/ ChangePageCacheSizeTo(LargeCacheCap + 1)

SpecCreate == InitPtrmapPages /\ [][NextCreate]_vars

\* test_shared_cache with NumThreads spawned threads, each with the key it
\* will insert: an empty cache behind a free lock.
InitShared ==
    /\ page_cache = {}
    /\ flags = [p \in Pages |-> {}]
    /\ pin_count = [p \in Pages |-> 0]
    /\ dirty_pages = {}
    /\ header = HeaderInit
    /\ wal = [hdr |-> HeaderInit, chdr |-> HeaderInit,
              img |-> [p \in Pages |-> ZeroPage],
              cimg |-> [p \in Pages |-> ZeroPage]]
    /\ commit_info = CommitStart
    /\ flush_info = FlushStart
    /\ checkpoint_state = "Checkpoint"
    /\ checkpoint_inflight = 0
    /\ syncing = FALSE
    /\ free_page_state = FreeStart
    /\ auto_vacuum_mode = "None"
    /\ capacity = CacheCap
    /\ content = [p \in Pages |-> ZeroPage]
    /\ batch = NoBatch
    /\ created = NoRoots
    /\ page1 = Page1Done
    /\ flushed = NoFlush
    /\ \E key \in [Spawned -> Keys] :
          threads = [lock |-> 0, main |-> "joining",
                     pc |-> [t \in Spawned |-> "spawned"], key |-> key]
    /\ ops = NoOps
    /\ last = Quiet

joined_mutant(pc) == TRUE

\* let _ = thread.join() has returned for every spawned thread.
joined(pc) == \A t \in Spawned : pc[t] \in {"done", "panicked"}

\* cache.write() of a spawned thread: it waits for the lock to be free.
ThreadWrite ==
    \E t \in Spawned :
       /\ threads.pc[t] = "spawned"
       /\ threads.lock = 0
       /\ Install([St EXCEPT !.threads.lock = t,
                             !.threads.pc[t] = "locked"])
       /\ last' = Quiet

\* cache.insert(page_key, Arc::new(Page::new(key))).unwrap() of a spawned
\* thread, which holds the lock: an error panics the thread, and unwinding
\* releases the lock.
ThreadInsert ==
    \E t \in Spawned :
       /\ threads.pc[t] = "locked"
       /\ \E o \in cache_insert(St, threads.key[t]) :
             /\ Install(IF o.res = "Ok"
                        THEN [o.st EXCEPT !.threads.pc[t] = "inserted"]
                        ELSE [o.st EXCEPT !.threads.pc[t] = "panicked",
                                          !.threads.lock = 0])
             /\ last' = Call("insert", threads.key[t], o.res, [thread |-> t])

\* The closure of a spawned thread ends: the guard is dropped.
ThreadUnlock ==
    \E t \in Spawned :
       /\ threads.pc[t] = "inserted"
       /\ Install([St EXCEPT !.threads.lock = 0,
                             !.threads.pc[t] = "done"])
       /\ last' = Quiet

\* cache.write() of the main thread, after the joins.
MainWrite ==
    /\ threads.main = "joining"
    /\ joined(threads.pc)
    /\ threads.lock = 0
    /\ Install([St EXCEPT !.threads.lock = NumThreads + 1,
                          !.threads.main = "locked"])
    /\ last' = Quiet

\* cache.get(&page_key) of the main thread, which holds the lock, for the
\* key of a spawned thread; info.id is the id of the page it got.
MainGet ==
    /\ threads.main = "locked"
    /\ \E t \in Spawned :
          LET page_key == threads.key[t]
          IN  /\ Install([St EXCEPT !.threads.lock = 0,
                                    !.threads.main = "done"])
              /\ last' = Call("get", page_key,
                              IF page_key \in page_cache THEN "Some"
                              ELSE "None",
                              [id |-> IF page_key \in page_cache
                                      THEN page_key ELSE 0])

NextShared ==
    \/ ThreadWrite
    \/ ThreadInsert
    \/ ThreadUnlock
    \/ MainWrite
    \/ MainGet

SpecShared == InitShared /\ [][NextShared]_vars

\* The page numbers and the page sizes the pointer-map arithmetic is
\* applied to.
PageNumbers == (1..MaxPageNo) \cup {U32_MAX - d : d \in 0..TopPages}

PageSizes == {512, 1024, 65536}

\* A page number and a page size are chosen.
InitPtrmap ==
    /\ page_cache = {}
    /\ flags = [p \in Pages |-> {}]
    /\ pin_count = [p \in Pages |-> 0]
    /\ dirty_pages = {}
    /\ header = HeaderInit
    /\ wal = [hdr |-> HeaderInit, chdr |-> HeaderInit,
              img |-> [p \in Pages |-> ZeroPage],
              cimg |-> [p \in Pages |-> ZeroPage]]
    /\ commit_info = CommitStart
    /\ flush_info = FlushStart
    /\ checkpoint_state = "Checkpoint"
    /\ checkpoint_inflight = 0
    /\ syncing = FALSE
    /\ free_page_state = FreeStart
    /\ auto_vacuum_mode = "Full"
    /\ capacity = CacheCap
    /\ content = [p \in Pages |-> ZeroPage]
    /\ batch = NoBatch
    /\ created = NoRoots
    /\ page1 = Page1Done
    /\ flushed = NoFlush
    /\ threads = NoThreads
    /\ ops = NoOps
    /\ \E db_page_no \in PageNumbers, page_size \in PageSizes :
          last = Call("input", db_page_no, "Ok", [page_size |-> page_size])

\* What the arithmetic leaves alone: the pager.
PagerUnchanged ==
    UNCHANGED <<page_cache, flags, pin_count, dirty_pages, header, wal,
                commit_info, flush_info, checkpoint_state,
                checkpoint_inflight, syncing, free_page_state,
                auto_vacuum_mode, capacity, content, batch, created, page1,
                flushed, threads, ops>>

\* is_ptrmap_page is applied to the chosen page number.
IsPtrmapPage ==
    /\ last.op = "input"
    /\ last' = Call("is_ptrmap_page", last.id, "Ok",
                    [page_size |-> last.info.page_size,
                     result |-> is_ptrmap_page(last.id, last.info.page_size)])
    /\ PagerUnchanged

\* get_ptrmap_page_no_for_db_page and then get_ptrmap_offset_in_page are
\* applied to the chosen page number, as ptrmap_get and ptrmap_put apply
\* them to a page that is not below FIRST_PTRMAP_PAGE_NO.
GetPtrmapOffsetInPage ==
    /\ last.op = "input"
    /\ last.id >= FIRST_PTRMAP_PAGE_NO
    /\ LET ptrmap_pg_no ==
               get_ptrmap_page_no_for_db_page(last.id, last.info.page_size)
       IN  \E off \in get_ptrmap_offset_in_page(last.id, ptrmap_pg_no,
                                                last.info.page_size) :
              last' = Call("get_ptrmap_offset_in_page", last.id, off.ret,
                           [page_size |-> last.info.page_size,
                            ptrmap_page_no |-> ptrmap_pg_no,
                            offset |-> off.offset])
    /\ PagerUnchanged

NextPtrmap ==
    \/ IsPtrmapPage
    \/ GetPtrmapOffsetInPage

SpecPtrmap == InitPtrmap /\ [][NextPtrmap]_vars

\* Pagers opened on a database that is not initialised.
InitFresh ==
    /\ page_cache = {}
    /\ flags = [p \in Pages |-> {}]
    /\ pin_count = [p \in Pages |-> 0]
    /\ dirty_pages = {}
    /\ header = HeaderInit
    /\ wal = [hdr |-> HeaderInit, chdr |-> HeaderInit,
              img |-> [p \in Pages |-> ZeroPage],
              cimg |-> [p \in Pages |-> ZeroPage]]
    /\ commit_info = CommitStart
    /\ flush_info = FlushStart
    /\ checkpoint_state = "Checkpoint"
    /\ checkpoint_inflight = 0
    /\ syncing = FALSE
    /\ free_page_state = FreeStart
    /\ auto_vacuum_mode \in {"None", "Full"}
    /\ capacity = CacheCap
    /\ content = [p \in Pages |-> ZeroPage]
    /\ batch = NoBatch
    /\ created = NoRoots
    /\ page1 = Page1Fresh
    /\ flushed = NoFlush
    /\ threads = NoThreads
    /\ ops = NoOps
    /\ last = Quiet

\* The leaf count of the trunk page of a database opened with a free list.
TrunkLeaves == {0, max_free_list_entries - 1, max_free_list_entries}

\* The image of a database of MaxPage pages whose page 2 is the only trunk
\* of the free list and holds n leaves.
TrunkImage(n) ==
    [p \in Pages |-> IF p = 2 THEN [ZeroPage EXCEPT !.leaf_count = n]
                     ELSE ZeroPage]

TrunkHeader(n) ==
    [HeaderInit EXCEPT !.database_size = MaxPage,
                       !.freelist_trunk_page = 2,
                       !.freelist_pages = n + 1]

\* A pager opened on a new database, or on a database with a free list.
InitFreeList ==
    \/ Init
    \/ /\ page_cache = {}
       /\ flags = [p \in Pages |-> {}]
       /\ pin_count = [p \in Pages |-> 0]
       /\ dirty_pages = {}
       /\ \E n \in TrunkLeaves :
             /\ header = TrunkHeader(n)
             /\ wal = [hdr |-> TrunkHeader(n), chdr |-> TrunkHeader(n),
                       img |-> TrunkImage(n), cimg |-> TrunkImage(n)]
             /\ content = TrunkImage(n)
       /\ commit_info = CommitStart
       /\ flush_info = FlushStart
       /\ checkpoint_state = "Checkpoint"
       /\ checkpoint_inflight = 0
       /\ syncing = FALSE
       /\ free_page_state = FreeStart
       /\ auto_vacuum_mode = "None"
       /\ capacity = CacheCap
       /\ batch = NoBatch
       /\ created = NoRoots
       /\ page1 = Page1Done
       /\ flushed = NoFlush
       /\ threads = NoThreads
       /\ ops = NoOps
       /\ last = Quiet

\* Transactions that allocate and free pages and are rolled back.
NextFree ==
    \/ FreePage
    \/ Rollback
    \/ AllocatePage
    \/ CompleteRead

SpecFree == InitFreeList /\ [][NextFree]_vars

\* Transactions that allocate and free pages and are rolled back, the
\* cache resized in between.
NextFreeList ==
    \/ FreePage
    \/ AllocatePage
    \/ CompleteRead
    \/ Rollback
    \/ ChangePageCacheSize

SpecFreeList == InitFreeList /\ [][NextFreeList]_vars

\* The WAL is checkpointed by calls of Pager::checkpoint, repeated while
\* they return IO or fail, on a database that grows and is changed.
NextCkpt ==
    \/ Checkpoint
    \/ CompleteSync
    \/ CompleteCheckpointWrite
    \/ AllocatePage

SpecCkpt == Init /\ [][NextCkpt]_vars

\* A call of commit_dirty_pages by a caller that runs one operation at a
\* time: no flush is suspended.
CommitAlone ==
    /\ flush_info.state = "Start"
    /\ CommitDirtyPages

\* A call of cacheflush by a caller that runs one operation at a time: no
\* commit is suspended.
CacheflushAlone ==
    /\ commit_info.state = "Start"
    /\ Cacheflush

\* Pages are allocated and changed, and written to the WAL by commits and
\* flushes, one operation at a time, the writes of the frames acknowledged
\* by the I/O backend.
NextAppend ==
    \/ CommitAlone
    \/ CacheflushAlone
    \/ CompleteCommitWrite
    \/ CompleteFlushWrite
    \/ AddDirty
    \/ AllocatePage

SpecAppend == Init /\ [][NextAppend]_vars

\* checkpoint_shutdown is called.
ShutdownEnter ==
    /\ Running
    /\ ops.shutdown.pc = "idle"
    /\ \E disabled \in BOOLEAN :
          Install([St EXCEPT !.ops.shutdown =
                     [pc |-> "sync", disabled |-> disabled, attempts |-> 0]])
    /\ last' = Quiet

\* One turn of the loop of checkpoint_shutdown: wal.sync() is called; when
\* it returns Ok(IO), io.run_once() is called, whose error is returned, and
\* _attempts is incremented: at i32::MAX the addition panics in a build with
\* overflow checks and wraps in a build without; the loop goes on.  Any
\* other result of sync() leaves the loop.
ShutdownTurn ==
    /\ Running
    /\ ops.shutdown.pc = "sync"
    /\ \E y \in wal_sync(St) :
          IF y.res # "IO"
          THEN /\ Install([y.st EXCEPT !.ops.shutdown.pc = "checkpoint"])
               /\ last' = Quiet
          ELSE \/ /\ Install([y.st EXCEPT !.ops.shutdown = NoShutdown])
                  /\ last' = Call("checkpoint_shutdown", 0, "Err",
                                  [disabled |-> ops.shutdown.disabled,
                                   sync |-> y.res, invoked |-> FALSE])
               \/ /\ ops.shutdown.attempts < AttemptsMax
                  /\ Install([y.st EXCEPT !.ops.shutdown.attempts = @ + 1])
                  /\ last' = Quiet
               \/ /\ ops.shutdown.attempts = AttemptsMax
                  /\ Install([y.st EXCEPT !.ops.shutdown.attempts =
                                             -AttemptsMax - 1])
                  /\ last' = Quiet
               \/ /\ ops.shutdown.attempts = AttemptsMax
                  /\ Install([y.st EXCEPT !.ops.shutdown = NoShutdown])
                  /\ last' = Call("checkpoint_shutdown", 0, "Panic",
                                  [disabled |-> ops.shutdown.disabled,
                                   sync |-> y.res, invoked |-> FALSE])

\* checkpoint_shutdown after its loop: wal_checkpoint is called and the
\* call returns.
ShutdownCheckpoint ==
    /\ Running
    /\ ops.shutdown.pc = "checkpoint"
    /\ \E c \in wal_checkpoint(St, ops.shutdown.disabled) :
          /\ Install([c.st EXCEPT !.ops.shutdown = NoShutdown])
          /\ last' = Call("checkpoint_shutdown", 0, c.ret,
                          [disabled |-> ops.shutdown.disabled,
                           sync |-> "left", invoked |-> TRUE])

\* checkpoint_shutdown is not under way.
ShutdownIdle == ops.shutdown.pc = "idle"

\* Pages are allocated and changed between the calls of
\* checkpoint_shutdown, which is followed turn by turn of its loop.
NextShutdown ==
    \/ ShutdownEnter
    \/ ShutdownTurn
    \/ ShutdownCheckpoint
    \/ (ShutdownIdle /\ AllocatePage)
    \/ (ShutdownIdle /\ AddDirty)

SpecShutdown == Init /\ [][NextShutdown]_vars

\* The thread that has called checkpoint_shutdown goes on running it.
SpecShutdownFair ==
    SpecShutdown /\ WF_vars(ShutdownTurn) /\ WF_vars(ShutdownCheckpoint)

\* Pages are allocated and freed, the freed pages kept as history, in a
\* cache whose size the caller changes; the reads are completed by the I/O
\* backend.
NextFreeChain ==
    \/ FreePageKeeping(TRUE)
    \/ AllocatePage
    \/ CompleteRead
    \/ ChangePageCacheSize

SpecFreeChain == InitFreeList /\ [][NextFreeChain]_vars

\* Pages are freed, by calls that are repeated while they return IO, and
\* read, the reads completed by the I/O backend.
NextFreeOp ==
    \/ FreePage
    \/ ReadPage
    \/ CompleteRead

SpecFreeOp == InitFreeList /\ [][NextFreeOp]_vars

\* Pages of a database are read and changed and flushed to the WAL, with
\* calls in between the calls of a suspended flush.
NextFlushRead ==
    \/ ReadPage
    \/ CompleteRead
    \/ AddDirty
    \/ Cacheflush
    \/ CompleteFlushWrite

SpecFlushRead == InitFreeList /\ [][NextFlushRead]_vars

\* Transactions that allocate and change pages and are ended, by a commit
\* that may be suspended or by a rollback.
NextTx ==
    \/ EndTx
    \/ CompleteCommitWrite
    \/ CompleteCheckpointWrite
    \/ CompleteSync
    \/ AddDirty
    \/ AllocatePage

SpecTx == Init /\ [][NextTx]_vars

\* Read transactions begin on a database whose pages are read, pinned and
\* changed.
NextReadTx ==
    \/ BeginReadTx
    \/ ReadPage
    \/ CompleteRead
    \/ AddDirty
    \/ Pin
    \/ Unpin

SpecReadTx == InitFreeList /\ [][NextReadTx]_vars

\* Pages are allocated while frames are handed to wal_insert_frame.
NextFrame ==
    \/ WalInsertFrame
    \/ AllocatePage

SpecFrame == Init /\ [][NextFrame]_vars

\* Pages are read, changed and allocated, and the WAL is checkpointed, by
\* request or at shutdown.
NextCheckpoint ==
    \/ WalCheckpoint
    \/ CheckpointShutdown
    \/ ReadPage
    \/ CompleteRead
    \/ AddDirty
    \/ AllocatePage

SpecCheckpoint == Init /\ [][NextCheckpoint]_vars

\* The pagers call maybe_allocate_page1, their steps interleaved.
NextPage1 ==
    \/ MaybeAllocatePage1Enter
    \/ MaybeAllocatePage1TryLock
    \/ MaybeAllocatePage1Locked
    \/ CompletePage1Write

SpecPage1 == InitFresh /\ [][NextPage1]_vars

(* ---- properties -------------------------------------------------------- *)

\* C1: finish_append_frames_commit is called only when the last WAL sync()
\* of the same commit returned Done: never while it returns IO, never after
\* it failed, never without a sync.
C1_FinishOnlyAfterSyncDone ==
    /\ batch.finish # "unsynced"
    /\ last.op = "commit_dirty_pages" => last.info.finish # "unsynced"

\* A commit of a non-empty dirty set has synced the WAL and finished.
C1_Witness ==
    /\ last.op = "commit_dirty_pages"
    /\ last.ret = "Done"
    /\ last.info.finish = "synced"
    /\ last.info.hist.snapshot # <<>>

\* The frames of a batch of n pages carry db_size 0 below the last index and
\* the header's database_size, which is not 0, at the last index.
CommitFrameIsLast(appends, n) ==
    \A k \in 1..Len(appends) :
        /\ appends[k][3] > 0
        /\ appends[k][2] = IF k = n THEN appends[k][3] ELSE 0

\* The commit is between its Start snapshot and its last frame.
Appending(info) == info.state \in {"AppendFrame", "WaitAppendFrame"}

\* C2: in a commit over a snapshot of n >= 1 pages, append_frame gets the
\* header's database_size as db_size for the frame of snapshot index n-1 and
\* 0 for every lower index: the commit frame is the last frame of the batch
\* and the only one with a nonzero db_size.
C2_CommitFrameLast ==
    /\ Appending(commit_info)
           => CommitFrameIsLast(batch.appends, Len(commit_info.dirty_pages))
    /\ (last.op = "commit_dirty_pages" /\ last.info.hist.snapshot # <<>>)
           => /\ Len(last.info.hist.appends) = Len(last.info.hist.snapshot)
              /\ CommitFrameIsLast(last.info.hist.appends,
                                   Len(last.info.hist.snapshot))

\* A call has appended the last frame of a batch of two pages.
C2_Witness ==
    /\ last.op = "commit_dirty_pages"
    /\ Len(last.info.hist.snapshot) = 2
    /\ last.info.hist.appends[1][2] = 0
    /\ last.info.hist.appends[2][2] >= 2

\* The pages of the first k frames are the first k entries of the snapshot.
InSnapshotOrder(appends, snapshot) ==
    /\ Len(appends) <= Len(snapshot)
    /\ \A k \in 1..Len(appends) : appends[k][1] = snapshot[k]

\* C3: a commit appends the pages of the snapshot taken at Start in index
\* order, one frame per entry, however often it returns IO and is called
\* again: while it appends, the frames are those of the entries up to the
\* current index; when the last is appended, they are the whole snapshot.
C3_AppendsInSnapshotOrder ==
    /\ Appending(commit_info)
           => /\ InSnapshotOrder(batch.appends, commit_info.dirty_pages)
              /\ Len(batch.appends) = commit_info.idx +
                     (IF commit_info.state = "WaitAppendFrame" THEN 1 ELSE 0)
    /\ (last.op = "commit_dirty_pages" /\ last.info.hist.snapshot # <<>>)
           => /\ InSnapshotOrder(last.info.hist.appends, last.info.hist.snapshot)
              /\ Len(last.info.hist.appends) = Len(last.info.hist.snapshot)

\* A commit has returned IO with the second frame of its snapshot appended.
C3_Witness ==
    /\ last.op = "commit_dirty_pages"
    /\ last.ret = "IO"
    /\ commit_info.state = "WaitAppendFrame"
    /\ commit_info.idx = 1
    /\ Len(batch.appends) = 2

C5_DirtySetPagesCachedDirty ==
    \A id \in dirty_pages :
        /\ id \in page_cache
        /\ PAGE_LOADED \in flags[id]
        /\ PAGE_DIRTY \in flags[id]

\* C6: every page in the page cache with DIRTY set has its id in the dirty
\* set.
C6_CachedDirtyInDirtySet ==
    \A id \in page_cache : PAGE_DIRTY \in flags[id] => id \in dirty_pages

\* C7: after a rollback that returns successfully, the dirty set and the
\* page cache are empty, the commit FSM and the flush FSM are at Start with
\* empty snapshots and no write in flight, and the checkpoint FSM is at
\* Checkpoint with checkpoint_inflight = 0 and syncing = false.
C7_RollbackResets ==
    (last.op = "rollback" /\ last.ret = "Ok")
        => /\ dirty_pages = {}
           /\ page_cache = {}
           /\ commit_info = CommitStart
           /\ flush_info = FlushStart
           /\ checkpoint_state = "Checkpoint"
           /\ checkpoint_inflight = 0
           /\ ~syncing

\* A rollback has succeeded on a pager whose flush was suspended, whose
\* commit was in its checkpoint and whose database file was being synced.
C7_Witness ==
    /\ last.op = "rollback"
    /\ last.ret = "Ok"
    /\ last.info.suspended
    /\ commit_info = CommitStart

\* C8: rollback resets every resumable FSM of the pager to Start, the
\* free-page FSM included: after a rollback that returns successfully the
\* free-page FSM is at Start.
C8_RollbackResetsFreePage ==
    (last.op = "rollback" /\ last.ret = "Ok")
        => free_page_state.state = "Start"

C10_OneReadOnMiss ==
    last.op = "read_page"
        => /\ (~last.info.hit /\ last.info.answered)
                 => /\ last.info.wal_reads + last.info.db_reads = 1
                    /\ last.info.found
                          => last.info.wal_reads = 1 /\ last.info.db_reads = 0
                    /\ ~last.info.found
                          => last.info.wal_reads = 0 /\ last.info.db_reads = 1
           /\ last.info.hit
                 => last.info.wal_reads = 0 /\ last.info.db_reads = 0
           /\ last.ret = "Ok" => last.id \in page_cache

\* A page with a frame in the WAL has been read on a cache miss; its read is
\* in flight and the cache is full.
C10_Witness ==
    /\ last.op = "read_page"
    /\ last.ret = "Ok"
    /\ ~last.info.hit
    /\ last.info.found
    /\ last.info.wal_reads = 1
    /\ last.id \in page_cache
    /\ Cardinality(page_cache) = capacity
    /\ PAGE_LOCKED \in flags[last.id]

\* C11: a read_page that fails (CacheFull because the cache cannot admit the
\* page, or an error of the WAL or of the file) leaves the set of cached
\* pages and the dirty set as they were before the call.
C11_FailedReadKeepsCache ==
    [][(last'.op = "read_page" /\ last'.ret # "Ok")
          => /\ page_cache' = page_cache
             /\ dirty_pages' = dirty_pages]_vars

\* A read of a page that is not cached has failed with CacheFull on a cache
\* that is full of dirty pages.
C11_Witness ==
    /\ last.op = "read_page"
    /\ last.ret = "CacheFull"
    /\ last.id \notin page_cache
    /\ Cardinality(page_cache) = capacity
    /\ dirty_pages # {}

\* C12: a successful allocate_page called with database_size S returns the
\* page S+1, or S+2 when auto-vacuum is Full and S+1 is a pointer-map page,
\* and then the pointer-map page S+1 is in the cache, dirty; afterwards
\* database_size is the returned id, the returned page is not a pointer-map
\* page in Full mode, and it is cached, LOADED, DIRTY and in the dirty set.
C12_AllocateReturnsNextPage ==
    [][(last'.op = "allocate_page" /\ last'.ret = "Ok")
          => LET S == header.database_size
                 due == /\ auto_vacuum_mode = "Full"
                        /\ is_ptrmap_page(S + 1, PageSize)
                 id == last'.id
             IN  /\ id = IF due THEN S + 2 ELSE S + 1
                 /\ due => /\ S + 1 \in page_cache'
                            /\ S + 1 \in dirty_pages'
                            /\ PAGE_DIRTY \in flags'[S + 1]
                 /\ header'.database_size = id
                 /\ auto_vacuum_mode = "Full" => ~is_ptrmap_page(id, PageSize)
                 /\ id \in page_cache'
                 /\ id \in dirty_pages'
                 /\ {PAGE_LOADED, PAGE_DIRTY} \subseteq flags'[id]]_vars

\* In Full mode a page has been allocated behind a new pointer-map page.
C12_Witness ==
    /\ last.op = "allocate_page"
    /\ last.ret = "Ok"
    /\ auto_vacuum_mode = "Full"
    /\ last.id = 3
    /\ {2, 3} \subseteq page_cache
    /\ header.database_size = 3

\* The pointer-map pages among the pages 2..db_size.
PtrmapPagesUpTo(db_size, page_size) ==
    {p \in 2..db_size : is_ptrmap_page(p, page_size)}

\* The database size after n allocations on a database of db_size pages in
\* Full mode, by the arithmetic of allocate_page.
RECURSIVE SizeAfterRoots(_, _, _)
SizeAfterRoots(n, db_size, page_size) ==
    IF n = 0 THEN db_size
    ELSE SizeAfterRoots(n - 1,
                        next_db_size(db_size,
                                     is_ptrmap_page(db_size + 1, page_size)),
                        page_size)

C14_OnePagerWritesPage1 ==
    /\ Cardinality(page1.entered) <= 1
    /\ page1.writes <= 1
    /\ Cardinality({i \in Pagers : page1.pagers[i].state = "Writing"}) <= 1
    /\ \A i \in Pagers :
          /\ page1.pagers[i].saw \in {"lock_held", "initializing"}
                => page1.pagers[i].ret = "IO"
          /\ i \notin page1.entered => page1.pagers[i].state = "Start"

\* One pager is writing page 1, its write in flight, and another has been
\* sent away with IO under the lock.
C14_Witness ==
    \E i, j \in Pagers :
       /\ i # j
       /\ page1.pagers[i].state = "Writing"
       /\ page1.pagers[i].write_counter > 0
       /\ page1.pagers[j].saw = "initializing"
       /\ page1.pagers[j].ret = "IO"

\* free_page(id) called with the free-page FSM at Start and id below 2 or
\* above database_size.
FreeOutOfRange ==
    /\ last'.op = "free_page"
    /\ free_page_state.state = "Start"
    /\ last'.id < 2 \/ last'.id > header.database_size

\* C15 as stated: free_page(id) with id < 2 or id > database_size fails
\* with Corrupt and leaves freelist_pages, freelist_trunk_page, the dirty
\* set, the cache and the free-page FSM state unchanged.
C15_Original ==
    [][FreeOutOfRange
         => /\ last'.ret = "Corrupt"
            /\ header'.freelist_pages = header.freelist_pages
            /\ header'.freelist_trunk_page = header.freelist_trunk_page
            /\ dirty_pages' = dirty_pages
            /\ page_cache' = page_cache
            /\ free_page_state' = free_page_state]_vars

\* C15: free_page(id) with id < 2 or id > database_size fails and leaves
\* freelist_pages, freelist_trunk_page, the dirty set and the free-page FSM
\* state unchanged.  With id < 2 it fails with Corrupt and the cache is
\* unchanged.  With id > database_size the size is read from the header
\* page first: when page 1 is cached the call fails with Corrupt and the
\* cache is unchanged; when it is not, the read of page 1 either fails and
\* is the error of the call, the cache unchanged, or brings page 1 into the
\* cache, in the place of an evicted page without DIRTY when it is full,
\* and the call fails with Corrupt.
C15_OutOfRangeFreeFails ==
    [][FreeOutOfRange
         => /\ last'.ret \in {"Corrupt", "Err", "CacheFull"}
            /\ header'.freelist_pages = header.freelist_pages
            /\ header'.freelist_trunk_page = header.freelist_trunk_page
            /\ dirty_pages' = dirty_pages
            /\ free_page_state' = free_page_state
            /\ (last'.id < 2 \/ 1 \in page_cache)
                  => last'.ret = "Corrupt" /\ page_cache' = page_cache
            /\ last'.ret # "Corrupt" => page_cache' = page_cache
            /\ page_cache' # page_cache
                  => /\ 1 \in page_cache'
                     /\ page_cache' \ {1} \subseteq page_cache
                     /\ \A p \in page_cache \ page_cache' :
                           PAGE_DIRTY \notin flags[p]
                     /\ Cardinality(page_cache \ page_cache') <= 1]_vars

\* free_page of the page past the end of a database of two pages or more
\* has failed with Corrupt, the header page in the cache.
C15_Witness ==
    /\ last.op = "free_page"
    /\ last.ret = "Corrupt"
    /\ last.id > header.database_size
    /\ header.database_size >= 2
    /\ 1 \in page_cache
    /\ free_page_state = FreeStart

\* A call of free_page(id), first or repeated for the same page, returns
\* Done.
FreeCompletes ==
    /\ last'.op = "free_page"
    /\ last'.ret = "Done"
    /\ free_page_state.state # "Start" => free_page_state.page = last'.id

\* C16: a call of free_page(id) that completes, the header trunk T and the
\* leaf count L of T as they are when it does: if T # 0 and L < Lmax
\* = usable_space/4 - 2, T is dirty, its leaf count is L + 1, id is at byte
\* offset 8 + 4L of T and the header trunk is still T; otherwise the freed
\* page is dirty, its next trunk is T, its leaf count 0 and the header
\* trunk is id.  In both cases the freed page is not UPTODATE, and
\* freelist_pages has grown by one in the call that left Start and by
\* nothing in the calls that resumed it.
C16_FreePageEffect ==
    [][FreeCompletes
         => LET id == last'.id
                T == header.freelist_trunk_page
                L == content[T].leaf_count
            IN  /\ IF T # 0 /\ L < max_free_list_entries
                   THEN /\ T \in dirty_pages'
                        /\ PAGE_DIRTY \in flags'[T]
                        /\ content'[T].leaf_count = L + 1
                        /\ <<TRUNK_PAGE_HEADER_SIZE + LEAF_ENTRY_SIZE * L, id>>
                              \in content'[T].leaves
                        /\ header'.freelist_trunk_page = T
                   ELSE /\ id \in dirty_pages'
                        /\ PAGE_DIRTY \in flags'[id]
                        /\ content'[id].next_trunk = T
                        /\ content'[id].leaf_count = 0
                        /\ header'.freelist_trunk_page = id
                /\ PAGE_UPTODATE \notin flags'[id]
                /\ header'.freelist_pages =
                      IF free_page_state.state = "Start"
                      THEN header.freelist_pages + 1
                      ELSE header.freelist_pages]_vars

\* The free of a page filled the trunk: its leaf count is Lmax and the page
\* is its last leaf.
C16_WitnessFull ==
    /\ last.op = "free_page"
    /\ last.ret = "Done"
    /\ header.freelist_trunk_page = 2
    /\ content[2].leaf_count = max_free_list_entries
    /\ <<TRUNK_PAGE_HEADER_SIZE
           + LEAF_ENTRY_SIZE * (max_free_list_entries - 1), last.id>>
          \in content[2].leaves

\* The free of a page after the trunk was full: the page is the new trunk,
\* in front of the full one.
C16_Witness ==
    /\ last.op = "free_page"
    /\ last.ret = "Done"
    /\ header.freelist_trunk_page = last.id
    /\ content[last.id].next_trunk = 2
    /\ content[last.id].leaf_count = 0
    /\ last.id # 2
    /\ content[2].leaf_count = max_free_list_entries
    /\ header.freelist_pages = max_free_list_entries + 2

\* The pages of the frames a flush appended.
FlushedPages(appends) == {appends[i][1] : i \in DOMAIN appends}

\* C17 as stated: when cacheflush returns Done, every page that was in the
\* cache when the flush started is in the cache (the flushed pages were:
\* the flush fetched each from the cache), the dirty set is empty, no
\* flushed page is DIRTY, every frame carried db_size = 0, and neither
\* sync, nor checkpoint, nor finish_append_frames_commit was called.
C17_Original ==
    (last.op = "cacheflush" /\ last.ret = "Done")
       => /\ FlushedPages(last.info.appends) \subseteq page_cache
          /\ dirty_pages = {}
          /\ \A p \in FlushedPages(last.info.appends) :
                PAGE_DIRTY \notin flags[p]
          /\ \A i \in DOMAIN last.info.appends : last.info.appends[i][2] = 0
          /\ batch = NoBatch
          /\ checkpoint_state = "Checkpoint"

\* C17: no call of cacheflush adds a page to the cache or removes one, and
\* none calls sync, checkpoint or finish_append_frames_commit; the call that
\* finds the write of a frame acknowledged clears DIRTY on the page of the
\* frame; when cacheflush returns Done the dirty set is empty and every
\* frame the flush appended carried db_size = 0.
C17_FlushKeepsCache ==
    [][last'.op = "cacheflush"
         => /\ page_cache' = page_cache
            /\ batch' = batch
            /\ checkpoint_state' = checkpoint_state
            /\ checkpoint_inflight' = checkpoint_inflight
            /\ syncing' = syncing
            /\ wal'.chdr = wal.chdr /\ wal'.cimg = wal.cimg
            /\ (/\ flush_info.state = "WaitAppendFrame"
                /\ flush_info.in_flight_writes = 0
                /\ last'.ret \in {"IO", "Done"})
                  => PAGE_DIRTY \notin flags'[page_to_append(flush_info)]
            /\ last'.ret = "Done"
                  => /\ dirty_pages' = {}
                     /\ \A i \in DOMAIN last'.info.appends :
                           last'.info.appends[i][2] = 0]_vars

\* A flush of two pages has returned Done: both are in the cache and not
\* DIRTY.
C17_Witness ==
    /\ last.op = "cacheflush"
    /\ last.ret = "Done"
    /\ Len(last.info.appends) = 2
    /\ \A p \in FlushedPages(last.info.appends) :
          p \in page_cache /\ PAGE_DIRTY \notin flags[p]

\* C18: a commit_dirty_pages of a non-empty dirty set that finishes has
\* passed SyncWal once; it finishes as WalWritten, with no call of
\* checkpoint and no fsync of the database file, exactly when
\* wal_checkpoint_disabled was true or should_checkpoint false at SyncWal;
\* otherwise it has run the checkpoint and the fsync of the database file
\* and finishes as Checkpointed.
C18_WalWrittenOrCheckpointed ==
    (/\ last.op = "commit_dirty_pages"
     /\ last.ret = "Done"
     /\ ~last.info.empty)
       => /\ last.info.sync_wal.passed
          /\ IF last.info.sync_wal.disabled \/ ~last.info.sync_wal.should
             THEN last.info.result = "WalWritten" /\ last.info.ran = {}
             ELSE /\ last.info.result = "Checkpointed"
                  /\ last.info.ran = {"checkpoint", "begin_sync"}

\* A commit has finished as Checkpointed, the checkpoint enabled and due.
C18_Witness ==
    /\ last.op = "commit_dirty_pages"
    /\ last.ret = "Done"
    /\ ~last.info.empty
    /\ last.info.result = "Checkpointed"
    /\ ~last.info.sync_wal.disabled
    /\ last.info.sync_wal.should
    /\ last.info.ran = {"checkpoint", "begin_sync"}

\* A commit has finished as WalWritten with the checkpoint due but
\* disabled.
C18_WitnessDisabled ==
    /\ last.op = "commit_dirty_pages"
    /\ last.ret = "Done"
    /\ last.info.result = "WalWritten"
    /\ last.info.sync_wal.disabled
    /\ last.info.sync_wal.should

\* C19 as stated: whenever wal_checkpoint returns successfully, the page
\* cache is empty.
C19_Original ==
    (last.op = "wal_checkpoint" /\ last.ret = "Ok") => page_cache = {}

\* C19: whenever wal_checkpoint returns successfully and was called with
\* wal_checkpoint_disabled = false, the page cache is empty; called with
\* wal_checkpoint_disabled = true it returns successfully and leaves the
\* cache as it was.
C19_CheckpointClearsCache ==
    [][last'.op = "wal_checkpoint"
         => IF last'.info.disabled
            THEN last'.ret = "Ok" /\ page_cache' = page_cache
            ELSE last'.ret = "Ok" => page_cache' = {}]_vars

\* A wal_checkpoint that was not disabled has returned successfully and
\* emptied a cache that held the pages of the dirty set.
C19_Witness ==
    /\ last.op = "wal_checkpoint"
    /\ last.ret = "Ok"
    /\ ~last.info.disabled
    /\ page_cache = {}
    /\ Cardinality(dirty_pages) >= 2

\* C20: checkpoint_shutdown invokes wal_checkpoint only after a call of
\* wal.sync() has returned Done, and not when the sync ended with an error.
C20_CheckpointAfterSyncDone ==
    (last.op = "checkpoint_shutdown" /\ last.info.invoked)
       => last.info.sync = "Done"

\* C21: a wal_insert_frame that returns Ok for a frame whose page is cached
\* has copied the bytes of the frame into the cached page and, the frame not
\* a commit frame, left the page in the dirty set with DIRTY set; for a
\* frame that is not a commit frame and whose page is not cached it leaves
\* the cache and the dirty set unchanged; after a commit frame the dirty set
\* is empty and no page that was in it, or that the frame put in it, is
\* DIRTY.  No call changes which pages are cached.
C21_FrameIngress ==
    [][(last'.op = "wal_insert_frame" /\ last'.ret = "Ok")
         => /\ page_cache' = page_cache
            /\ last'.id \in page_cache
                  => content'[last'.id] = last'.info.raw_page
            /\ ~last'.info.is_commit_frame
                  => IF last'.id \in page_cache
                     THEN /\ dirty_pages' = dirty_pages \cup {last'.id}
                          /\ PAGE_DIRTY \in flags'[last'.id]
                     ELSE dirty_pages' = dirty_pages
            /\ last'.info.is_commit_frame
                  => /\ dirty_pages' = {}
                     /\ \A p \in dirty_pages \cup {last'.id} :
                           PAGE_DIRTY \notin flags'[p]]_vars

\* A frame of a cached clean page was ingested: the page holds the bytes of
\* the frame, which differ from what it held, and is dirty.
C21_Witness ==
    /\ last.op = "wal_insert_frame"
    /\ last.ret = "Ok"
    /\ ~last.info.is_commit_frame
    /\ last.id \in page_cache
    /\ last.info.raw_page # ZeroPage
    /\ content[last.id] = last.info.raw_page
    /\ last.id \in dirty_pages
    /\ PAGE_DIRTY \in flags[last.id]

\* A commit frame was ingested with two pages in the dirty set: the set is
\* empty and the pages are clean.
C21_WitnessCommit ==
    /\ last.op = "wal_insert_frame"
    /\ last.ret = "Ok"
    /\ last.info.is_commit_frame
    /\ dirty_pages = {}
    /\ Cardinality(page_cache) >= 2

\* C22: a begin_read_tx that returns with the WAL reporting changed = true
\* has emptied the whole page cache; one that returns with changed = false
\* has left the page cache and the dirty set unchanged.
C22_ChangedClearsCache ==
    [][(last'.op = "begin_read_tx" /\ last'.ret = "Ok")
         => IF last'.info.changed
            THEN page_cache' = {}
            ELSE page_cache' = page_cache /\ dirty_pages' = dirty_pages]_vars

\* A read transaction began with changed = true on a cache that held two
\* pages, one of them dirty: the cache is empty.
C22_Witness ==
    /\ last.op = "begin_read_tx"
    /\ last.ret = "Ok"
    /\ last.info.changed
    /\ Cardinality(last.info.cache) >= 2
    /\ last.info.dirty_pages # {}
    /\ page_cache = {}

\* The calls of f in the calls of an end_tx.
CallsOf(calls, f) == Cardinality({i \in DOMAIN calls : calls[i] = f})

\* The transaction is ended: end_write_tx, then end_read_tx, once each, and
\* after what the call called of the commit.
EndsBoth(calls) ==
    /\ CallsOf(calls, "end_write_tx") = 1
    /\ CallsOf(calls, "end_read_tx") = 1
    /\ \E i \in DOMAIN calls :
          /\ calls[i] = "end_write_tx"
          /\ i + 1 \in DOMAIN calls /\ calls[i + 1] = "end_read_tx"
          /\ \A j \in DOMAIN calls :
                calls[j] \in {"commit_dirty_pages",
                              "finish_append_frames_commit"} => j < i

\* The transaction is not ended.
EndsNone(calls) ==
    CallsOf(calls, "end_write_tx") = 0 /\ CallsOf(calls, "end_read_tx") = 0

\* C23 as stated: an end_tx ends neither WAL transaction when its commit
\* returns IO or an error; it ends both, once, when rollback = true, at once,
\* with no frame appended and Rollback returned, or when its commit finishes
\* Done, and then after finish_append_frames_commit.
C23_Original ==
    [][last'.op = "end_tx"
         => IF last'.info.rollback
            THEN /\ last'.info.calls = <<"end_write_tx", "end_read_tx">>
                 /\ last'.ret = "Done" /\ last'.info.result = "Rollback"
                 /\ wal' = wal
            ELSE IF last'.ret = "Done"
            THEN /\ EndsBoth(last'.info.calls)
                 /\ CallsOf(last'.info.calls,
                            "finish_append_frames_commit") = 1
            ELSE IF CallsOf(last'.info.calls, "update_schema_if_newer") = 1
            THEN EndsBoth(last'.info.calls) /\ last'.ret = "Err"
            ELSE EndsNone(last'.info.calls)]_vars

\* C23: an end_tx ends neither WAL transaction when its commit returns IO
\* or an error; it ends both, once, when rollback = true, at once, with no
\* frame appended and Rollback returned, or when its commit finishes Done:
\* after finish_append_frames_commit when the commit had dirty pages to
\* write, and with no frame appended and no call of
\* finish_append_frames_commit when it found the dirty set empty.
C23_EndsOncePerTransaction ==
    [][last'.op = "end_tx"
         => IF last'.info.rollback
            THEN /\ last'.info.calls = <<"end_write_tx", "end_read_tx">>
                 /\ last'.ret = "Done" /\ last'.info.result = "Rollback"
                 /\ wal' = wal
            ELSE IF last'.ret = "Done"
            THEN /\ EndsBoth(last'.info.calls)
                 /\ IF last'.info.empty
                    THEN /\ wal' = wal
                         /\ CallsOf(last'.info.calls,
                                    "finish_append_frames_commit") = 0
                    ELSE CallsOf(last'.info.calls,
                                 "finish_append_frames_commit") = 1
            ELSE IF CallsOf(last'.info.calls, "update_schema_if_newer") = 1
            THEN EndsBoth(last'.info.calls) /\ last'.ret = "Err"
            ELSE EndsNone(last'.info.calls)]_vars

\* An end_tx has returned Done for a commit that had dirty pages: the
\* commit called finish_append_frames_commit and then both transactions
\* were ended.
C23_Witness ==
    /\ last.op = "end_tx"
    /\ last.ret = "Done"
    /\ ~last.info.rollback
    /\ ~last.info.empty
    /\ last.info.calls = <<"commit_dirty_pages",
                           "finish_append_frames_commit",
                           "end_write_tx", "end_read_tx">>

\* An end_tx has returned IO, its commit suspended, and ended nothing.
C23_WitnessPending ==
    /\ last.op = "end_tx"
    /\ last.ret = "IO"
    /\ last.info.calls = <<"commit_dirty_pages">>
    /\ commit_info.state # "Start"

\* An end_tx with rollback = true has returned Rollback while a commit was
\* suspended.
C23_WitnessRollback ==
    /\ last.op = "end_tx"
    /\ last.info.rollback
    /\ last.info.result = "Rollback"
    /\ commit_info.state # "Start"

\* C24: for a page size ps >= 512 and a page number p >= 1,
\* is_ptrmap_page(p, ps) is true exactly when p >= 2 and p - 2 is a multiple
\* of ps/5 + 1; for ps = 512 the pointer-map pages up to 310 are 2, 105
\* and 208.
C24_PtrmapPages ==
    last.op = "is_ptrmap_page"
       => LET p == last.id
              ps == last.info.page_size
          IN  /\ last.info.result
                    <=> (p >= 2 /\ (p - 2) % ((ps \div 5) + 1) = 0)
              /\ (ps = 512 /\ p <= 310)
                    => (last.info.result <=> p \in {2, 105, 208})

\* is_ptrmap_page(208, 512) was computed, and is true.
C24_Witness ==
    /\ last.op = "is_ptrmap_page"
    /\ last.id = 208
    /\ last.info.page_size = 512
    /\ last.info.result

\* C25: for a page size ps and a data page q >= 3 that is not a pointer-map
\* page, P = get_ptrmap_page_no_for_db_page(q, ps) is ((q-2)/G)*G + 2 with
\* G = ps/5 + 1, is_ptrmap_page(P, ps) is true, P < q <= P + ps/5, and
\* get_ptrmap_offset_in_page(q, P, ps) succeeds with (q - P - 1)*5, which
\* lies in [0, ps - 5].
C25_OffsetOfDataPage ==
    (/\ last.op = "get_ptrmap_offset_in_page"
     /\ last.id >= 3
     /\ ~is_ptrmap_page(last.id, last.info.page_size))
       => LET q == last.id
              ps == last.info.page_size
              G == (ps \div 5) + 1
              P == last.info.ptrmap_page_no
          IN  /\ P = (((q - 2) \div G) * G) + 2
              /\ is_ptrmap_page(P, ps)
              /\ P < q /\ q - P <= ps \div 5
              /\ last.ret = "Ok"
              /\ last.info.offset = (q - P - 1) * 5
              /\ last.info.offset \in 0..(ps - 5)

\* The entry of data page q as the pointer-map page of c holds it.
StoredEntry(c, q) ==
    LET P == (((q - 2) \div ((PageSize \div 5) + 1))
                 * ((PageSize \div 5) + 1)) + 2
    IN  deserialize_entry(c[P].ptrmap, (q - P - 1) * 5)

\* The data pages ptrmap_put is called for.
DataPages == {q \in 3..MaxDataPage : ~is_ptrmap_page(q, PageSize)}

\* C26: deserialize(serialize(e)) = e for every entry type in 1..5 and
\* every parent; after a completed ptrmap_put(q, type, parent) on a data
\* page q, ptrmap_get(q) returns {type, parent}, the entry of every other
\* data page is unchanged, and the pointer-map page is in the dirty set.
C26_EntriesRoundTrip ==
    [][/\ \A entry_type \in EntryTypes, parent_page_no \in Parents :
             deserialize(serialize(entry_type, parent_page_no))
                = [some |-> TRUE, entry_type |-> entry_type,
                   parent_page_no |-> parent_page_no]
       /\ \A q \in 1..MaxDataPage :
             (last'.op = "ptrmap_put" /\ last'.ret = "Done" /\ last'.id = q)
                => LET P == get_ptrmap_page_no_for_db_page(q, PageSize)
                       e == [some |-> TRUE,
                             entry_type |-> last'.info.entry_type,
                             parent_page_no |-> last'.info.parent_page_no]
                   IN  /\ q \in DataPages
                       /\ StoredEntry(content', q) = e
                       /\ \E o \in ptrmap_get(St, q)' : o.ret = "Done"
                       /\ \A o \in ptrmap_get(St, q)' :
                             o.ret = "Done" => o.entry = e
                       /\ \A q2 \in DataPages \ {q} :
                             StoredEntry(content', q2)
                                = StoredEntry(content, q2)
                       /\ P \in dirty_pages'
                       /\ PAGE_DIRTY \in flags'[P]]_vars

\* A ptrmap_put has completed with a parent whose four bytes differ, while
\* another data page has an entry.
C26_Witness ==
    /\ last.op = "ptrmap_put"
    /\ last.ret = "Done"
    /\ last.info.parent_page_no = 16909060
    /\ StoredEntry(content, last.id).parent_page_no = 16909060
    /\ \E q2 \in DataPages \ {last.id} : StoredEntry(content, q2).some

\* The type byte of the entry of data page q in the pointer-map page of c,
\* and whether the five bytes of the entry lie in the buffer of that page.
StoredType(c, q) ==
    LET P == get_ptrmap_page_no_for_db_page(q, PageSize)
        slot == {e \in c[P].ptrmap : e[1] = (q - P - 1) * 5}
    IN  IF slot = {} THEN 0 ELSE (CHOOSE e \in slot : TRUE)[2][1]

EntryInBuffer(c, q) ==
    LET P == get_ptrmap_page_no_for_db_page(q, PageSize)
    IN  ((q - P - 1) * 5) + PTRMAP_ENTRY_SIZE <= c[P].len

C27_WitnessCorrupt ==
    /\ last.op = "ptrmap_get"
    /\ last.id >= 3
    /\ last.ret = "Corrupt"
    /\ StoredType(content, last.id) = 6

\* A ptrmap_get of the pointer-map page 2 has returned Done(None).
C27_WitnessNone ==
    /\ last.op = "ptrmap_get"
    /\ last.id = 2
    /\ last.ret = "Done"
    /\ last.info.entry = NoEntry

\* C28: a page a thread inserted under the write lock of the cache stays in
\* the cache, and the get of the main thread for the key of a spawned
\* thread, under the lock and after the joins, returns a page, with the id
\* of the key; only the thread that holds the lock is between its write()
\* and the end of its use of the cache.
C28_SharedCache ==
    /\ \A t \in Spawned :
          threads.pc[t] \in {"inserted", "done"}
             => threads.key[t] \in page_cache
    /\ \A t \in Spawned :
          threads.pc[t] \in {"locked", "inserted"} => threads.lock = t
    /\ threads.main = "locked" => threads.lock = NumThreads + 1
    /\ last.op = "get" => last.ret = "Some" /\ last.info.id = last.id

\* The main thread got the page of a key that two threads had tried to
\* insert.
C28_Witness ==
    /\ last.op = "get"
    /\ last.ret = "Some"
    /\ \E t \in Spawned : threads.pc[t] = "panicked"
    /\ \E t \in Spawned : threads.pc[t] = "done" /\ threads.key[t] = last.id

\* C29: no page that read_page returns is UPTODATE while it is still LOCKED
\* and not LOADED: where the page is read from the WAL, UPTODATE is set
\* only by the completion of the frame read, with LOADED and the clearing
\* of LOCKED.
C29_UptodateOnlyWhenLoaded ==
    (last.op = "read_page" /\ last.ret = "Ok")
       => ~(/\ PAGE_UPTODATE \in flags[last.id]
            /\ PAGE_LOCKED \in flags[last.id]
            /\ PAGE_LOADED \notin flags[last.id])

\* C30: db_state only moves forward, from Uninitialized to Initializing and
\* from Initializing to Initialized; it becomes Initialized only in a call
\* of the pager that scheduled the write of page 1, with the write counter
\* at 0, and with page 1 inserted into the cache of that pager; and a call
\* of maybe_allocate_page1 returns Done only when db_state is Initialized.
C30_DbStateForward ==
    [][/\ page1'.db_state # page1.db_state
          => \/ /\ page1.db_state = "Uninitialized"
                /\ page1'.db_state = "Initializing"
             \/ /\ page1.db_state = "Initializing"
                /\ page1'.db_state = "Initialized"
       /\ (page1'.db_state = "Initialized" /\ page1.db_state # "Initialized")
          => \E me \in Pagers :
                /\ me \in page1.entered
                /\ page1.pagers[me].state = "Writing"
                /\ page1.pagers[me].write_counter = 0
                /\ ~page1.pagers[me].cached
                /\ page1'.pagers[me].cached
       /\ \A me \in Pagers :
             (page1'.pagers[me] # page1.pagers[me]
              /\ page1'.pagers[me].pc = "idle"
              /\ page1'.pagers[me].ret = "Done")
                => page1'.db_state = "Initialized"]_vars

\* The database is Initialized: the pager that wrote page 1 holds it in its
\* cache and its call returned Done; the write had been in flight while
\* another pager was answered IO, and that pager is answered Done now.
C30_Witness ==
    /\ page1.db_state = "Initialized"
    /\ \E i, j \in Pagers :
          /\ i # j
          /\ page1.pagers[i].cached
          /\ page1.pagers[i].saw = "own_write"
          /\ page1.pagers[i].ret = "Done"
          /\ ~page1.pagers[j].cached
          /\ page1.pagers[j].saw = "initialized"
          /\ page1.pagers[j].ret = "Done"

\* C31: a free_page(id) operation is begun with the free-page FSM at Start
\* and its call is repeated while it returns IO.  When a call of it
\* returns IO or Done, freelist_pages is one more than it was before the
\* operation, however many of its calls returned IO: the repeated calls do
\* not change freelist_pages.  On Done the free-page FSM is at Start.
C31_OneIncrementPerFree ==
    [][(last'.op = "free_page" /\ last'.id = ops'.free.page)
         => /\ ops.free.pending
                  => header'.freelist_pages = header.freelist_pages
            /\ header'.freelist_pages = ops'.free.before + 1
            /\ last'.ret = "Done" => free_page_state' = FreeStart]_vars

\* A free_page has returned Done after calls of it that returned IO:
\* freelist_pages has grown by one.
C31_Witness ==
    /\ last.op = "free_page"
    /\ last.ret = "Done"
    /\ last.id = ops.free.page
    /\ ops.free.ios = MaxIos
    /\ header.freelist_pages = ops.free.before + 1
    /\ free_page_state = FreeStart

\* C32: when commit_dirty_pages finishes as Checkpointed(result), result is
\* the CheckpointResult that the WAL checkpoint of the run returned, also
\* when a call returned IO between the WAL checkpoint and the finish.
C32_CheckpointResultKept ==
    (/\ last.op = "commit_dirty_pages"
     /\ last.ret = "Done"
     /\ last.info.result = "Checkpointed")
       => last.info.ckres = "wal"

\* C33: Pager::checkpoint runs its stages in order.  A call starts the
\* fsync of the database file only after the WAL checkpoint of the run has
\* returned Done, in this call before it or in an earlier call of the run;
\* a call returns Done only after the fsync was started and has completed
\* (syncing = false) and with the in-flight counter of the checkpoint at
\* 0; on Done the FSM is at Checkpoint again.
C33_CheckpointStagesInOrder ==
    [][last'.op = "checkpoint"
         => /\ \A i \in DOMAIN last'.info.calls :
                  last'.info.calls[i] \in {"begin_sync", "begin_sync Ok"}
                     => \/ ops.ckpt.wal_done /\ ~ops.ckpt.done
                        \/ \E j \in 1..(i - 1) :
                              last'.info.calls[j] = "wal.checkpoint Done"
            /\ last'.ret = "Done"
                  => /\ ops'.ckpt.wal_done
                     /\ ops'.ckpt.sync_started
                     /\ ~syncing'
                     /\ checkpoint_inflight' = 0
                     /\ checkpoint_state' = "Checkpoint"]_vars

\* A checkpoint has returned Done after calls of it that returned IO.
C33_Witness ==
    /\ last.op = "checkpoint"
    /\ last.ret = "Done"
    /\ ops.ckpt.ios = MaxIos
    /\ ops.ckpt.wal_done
    /\ ops.ckpt.sync_started
    /\ ~syncing
    /\ checkpoint_inflight = 0
    /\ checkpoint_state = "Checkpoint"

\* A call of a flush or commit takes its FSM from x to y.  A call that
\* finds the write of a frame in flight returns IO and appends and clears
\* nothing; a call that leaves the write of a frame in flight leaves the
\* page of the frame DIRTY; and a page that stays in the cache and on which
\* the call clears DIRTY is a page of the snapshot whose write was
\* acknowledged: one before the page to append now, or the page that was
\* waited for, with no write in flight.
AppendsOneByOne(x, y) ==
    /\ (x.state = "WaitAppendFrame" /\ x.in_flight_writes > 0)
          => /\ last'.ret = "IO"
             /\ y = x
             /\ flags' = flags
             /\ wal' = wal
    /\ (y.state = "WaitAppendFrame" /\ y.in_flight_writes > 0
        /\ PAGE_DIRTY \in flags[page_to_append(y)])
          => PAGE_DIRTY \in flags'[page_to_append(y)]
    /\ \A p \in page_cache \cap page_cache' :
          (PAGE_DIRTY \in flags[p] /\ PAGE_DIRTY \notin flags'[p])
             => \/ \E i \in 1..y.idx : y.dirty_pages[i] = p
                \/ /\ x.state = "WaitAppendFrame"
                   /\ x.in_flight_writes = 0
                   /\ p = page_to_append(x)

\* C34: during commit_dirty_pages and cacheflush, DIRTY is cleared on a
\* page only after the write of the frame appended for it was acknowledged
\* (the in-flight counter is 0 again), and the frame of the next page of
\* the snapshot is not appended before: at most one write of a frame of the
\* batch is in flight.
C34_OneAppendInFlight ==
    [][/\ commit_info'.in_flight_writes <= 1
       /\ flush_info'.in_flight_writes <= 1
       /\ last'.op = "commit_dirty_pages"
             => AppendsOneByOne(commit_info, commit_info')
       /\ last'.op = "cacheflush"
             => AppendsOneByOne(flush_info, flush_info')]_vars

\* A commit of two pages waits for the write of its second frame: the first
\* page is not DIRTY any more, the second still is.
C34_Witness ==
    /\ last.op = "commit_dirty_pages"
    /\ last.ret = "IO"
    /\ commit_info.state = "WaitAppendFrame"
    /\ commit_info.in_flight_writes = 1
    /\ commit_info.idx = 1
    /\ Len(batch.appends) = 2
    /\ PAGE_DIRTY \notin flags[commit_info.dirty_pages[1]]
    /\ PAGE_DIRTY \in flags[commit_info.dirty_pages[2]]

\* A flush of two pages has found the write of its first frame
\* acknowledged and cleared DIRTY on the first page.
C34_WitnessFlush ==
    /\ last.op = "cacheflush"
    /\ last.ret = "IO"
    /\ flush_info.state = "AppendFrame"
    /\ flush_info.idx = 1
    /\ flush_info.in_flight_writes = 0
    /\ PAGE_DIRTY \notin flags[flush_info.dirty_pages[1]]
    /\ PAGE_DIRTY \in flags[flush_info.dirty_pages[2]]

\* C35: a call of commit_dirty_pages in which the WAL sync fails returns
\* the error, does not call finish_append_frames_commit and leaves the
\* commit FSM in SyncWal; a call that resumes in SyncWal appends no frame;
\* and the FSM leaves SyncWal only by a sync that returns Done or by a
\* rollback, which sets it to Start.
C35_FailedSyncStaysInSyncWal ==
    [][/\ (last'.op = "commit_dirty_pages" /\ last'.info.sync_err)
             => /\ last'.ret = "Err"
                /\ last'.info.finish = "none"
                /\ commit_info'.state = "SyncWal"
       /\ (last'.op = "commit_dirty_pages" /\ commit_info.state = "SyncWal")
             => /\ wal'.img = wal.img
                /\ wal'.hdr = wal.hdr
                /\ Len(last'.info.hist.appends) = 0
       /\ (commit_info.state = "SyncWal" /\ commit_info'.state # "SyncWal")
             => \/ /\ last'.op = "commit_dirty_pages"
                   /\ last'.info.sync_wal.passed
                   /\ ~last'.info.sync_err
                \/ /\ last'.op = "rollback"
                   /\ commit_info' = CommitStart]_vars

\* A call of commit_dirty_pages that resumed in SyncWal after a failed sync
\* has failed in the sync again.
C35_Witness ==
    /\ last.op = "commit_dirty_pages"
    /\ last.ret = "Err"
    /\ last.info.from = "SyncWal"
    /\ last.info.sync_err
    /\ last.info.finish = "none"
    /\ commit_info.state = "SyncWal"

\* C36: the loop of checkpoint_shutdown that repeats wal.sync() is left
\* after a bounded number of attempts, whatever sync() returns.
C36_SyncLoopTerminates ==
    (ops.shutdown.pc = "sync") ~> (ops.shutdown.pc # "sync")

\* C37: a page id leaves the dirty set only by a rollback, or by a call of
\* commit_dirty_pages or cacheflush of an operation that has appended a
\* frame of the page; a page marked dirty while the operation was suspended
\* is not dropped from the dirty set unwritten.
C37_NoDirtyPageDropped ==
    [][\A id \in dirty_pages \ dirty_pages' :
          \/ last'.op = "rollback"
          \/ /\ last'.op = "commit_dirty_pages"
             /\ id \in FlushedPages(last'.info.hist.appends)
          \/ /\ last'.op = "cacheflush"
             /\ last'.ret = "Done"
             /\ id \in FlushedPages(last'.info.appends)]_vars

\* C38: in Full mode, when the call of btree_create that ends an operation
\* returns Done, database_size has grown since the first call of the
\* operation by one data page, and by a pointer-map page when one was due,
\* however many calls of the operation returned IO.
C38_OneRootPerCreate ==
    [][(/\ last'.op = "btree_create"
        /\ last'.ret = "Done"
        /\ auto_vacuum_mode = "Full")
          => LET before == IF ops.create.pending THEN ops.create.before
                           ELSE header.database_size
             IN  header'.database_size =
                    next_db_size(before,
                                 is_ptrmap_page(before + 1, PageSize))]_vars

\* C39: between free_page operations, each for a valid page that was not
\* in the free list and each repeated until it returned Done, the trunk
\* chain from the header's freelist_trunk_page ends (no cycle), the
\* header's freelist_pages is the number of its trunks plus the sum of
\* their leaf counts, every leaf count is at most usable_space/4 - 2 and
\* every leaf entry lies inside the page, and every freed page occurs once
\* in the chain, as a trunk or as a leaf.
C39_FreeListWellFormed ==
    (ops.freed.ok /\ ~ops.free.pending /\ free_page_state = FreeStart)
       => LET chain == trunk_chain(content, header.freelist_trunk_page,
                                   LastPage + 1)
          IN  /\ Len(chain) <= LastPage
              /\ \A i, j \in DOMAIN chain : chain[i] = chain[j] => i = j
              /\ header.freelist_pages = chain_pages(content, chain)
              /\ \A i \in DOMAIN chain :
                    /\ content[chain[i]].leaf_count <= max_free_list_entries
                    /\ \A e \in leaf_entries(content, chain[i]) :
                          e[1] + LEAF_ENTRY_SIZE <= usable_space
              /\ \A id \in ops.freed.ids :
                    occurrences(content, chain, id) = 1

\* Two pages were freed from an empty free list: the first is the trunk and
\* the second its only leaf.
C39_Witness ==
    /\ ops.freed.ok
    /\ ~ops.free.pending
    /\ free_page_state = FreeStart
    /\ Cardinality(ops.freed.ids) = 2
    /\ header.freelist_pages = 2
    /\ header.freelist_trunk_page \in ops.freed.ids
    /\ content[header.freelist_trunk_page].leaf_count = 1

\* C40: whenever the shared db_state is Initializing, exactly one of the
\* pagers that share it has its AllocatePage1 FSM in Writing, also after a
\* call of allocate_page1 has returned an error.
C40_InitializingHasWriter ==
    page1.db_state = "Initializing"
       => Cardinality({i \in Pagers :
                         page1.pagers[i].state = "Writing"}) = 1

====
